---- MODULE Spec2Model ----
(***************************************************************************)
(* State-machine model of the overpass-network commitment core:            *)
(*   - SparseMerkleTreeI (core/hierarchy/intermediate/                     *)
(*     sparse_merkle_tree_i.rs)                                            *)
(*   - RootContract      (core/hierarchy/root/root_contract.rs)            *)
(*   - StorageNode       (core/storage_node/storage_node_contract.rs)      *)
(*   - ResponseManager   (core/storage_node/attest/response.rs)            *)
(*   - BitcoinStateConverter (core/hierarchy/client/wallet_extension/      *)
(*     bitcoin_b2o/bitcoin_state_converter.rs)                             *)
(* Byte strings are sequences of naturals 0..255.  A SHA-256 digest is     *)
(* modelled as an ideal (collision-free) hash: the preimage bracketed by   *)
(* the two non-byte tokens 256 and 257, so that digests can be embedded in *)
(* later preimages exactly as the code concatenates them.                  *)
(***************************************************************************)
EXTENDS Integers, Sequences, FiniteSets, TLC

VARIABLES
    smt,             \* the SparseMerkleTreeI object: root_hash, nodes, public_inputs
    smt_calls,       \* the last two update calls made on smt, oldest first
    rc,              \* the RootContract object
    rc_call,         \* the last call made on rc: arguments, result, state before
    overflow_checks, \* build profile: TRUE panics on u64 overflow, FALSE wraps
    last_pass,       \* `now` of the last call that went past the time gate, -1 if none
    emitted,         \* the `now` values of the calls that returned a global root
    gap_ok,          \* every returned root came epoch_duration away from all earlier ones
    storage_node,    \* the StorageNode object, NoNode before construction
    locks,           \* owner of each futures::lock::Mutex of the node, 0 when free
    store_tasks,     \* the store_update calls in flight: position and arguments
    node_call,       \* the last call completed on the node: arguments and result
    admitted,        \* per content hash, the proofs of the successful store_update calls, oldest first
    mgr,             \* the ResponseManager: configuration, is_verifying, metrics
    loops,           \* the verification loops spawned by start_verification
    mgr_call,        \* the last call made on the manager: arguments and result
    converter,       \* the BitcoinStateConverter: its shared state tree
    conv_call,       \* the last call made on the converter: arguments and result
    conv_tasks       \* the convert_lock_to_state calls: position, argument, result

tree_vars == <<smt, smt_calls>>
root_vars == <<rc, rc_call, overflow_checks, last_pass, emitted, gap_ok>>
node_vars == <<storage_node, locks, store_tasks, node_call, admitted>>
mgr_vars == <<mgr, loops, mgr_call>>
conv_vars == <<converter, conv_call, conv_tasks>>
vars == <<smt, smt_calls, rc, rc_call, overflow_checks, last_pass, emitted, gap_ok,
          storage_node, locks, store_tasks, node_call, admitted,
          mgr, loops, mgr_call, converter, conv_call, conv_tasks>>

---------------------------------------------------------------------------
(* Bounds of the model *)

\* Tree height of the model; the source fixes height at 256
\* (sparse_merkle_tree_i.rs:59), scaled down here.
Height == 2

\* Largest value of the model's u64 (u64::MAX scaled down): sums and
\* differences wrap modulo MaxU64 + 1 or panic, as the build decides.
MaxU64 == 3

---------------------------------------------------------------------------
(* Hashing *)

\* Option::None for an Option<[u8; 32]>
NoHash == <<>>

\* HashMap::new()
EmptyMap == [x \in {} |-> x]

\* HashMap::insert
MapPut(m, k, v) == [x \in (DOMAIN m) \cup {k} |-> IF x = k THEN v ELSE m[x]]

\* [0u8; 32]
ZeroHash == <<0,0,0,0,0,0,0,0, 0,0,0,0,0,0,0,0, 0,0,0,0,0,0,0,0, 0,0,0,0,0,0,0,0>>

\* Sha256::new(); hasher.update(bytes); hasher.finalize()
Sha256(bytes) == <<256>> \o bytes \o <<257>>

---------------------------------------------------------------------------
(* SparseMerkleTreeI *)

\* SparseMerkleTreeI::new
smt_new == [root_hash |-> ZeroHash, nodes |-> EmptyMap, public_inputs |-> 0]

\* SparseMerkleTreeI::hash_leaf
hash_leaf(key, value) == Sha256(key \o value)

\* SparseMerkleTreeI::get_bit
get_bit(key, index) ==
    LET byte_index == index \div 8
        bit_index  == 7 - (index % 8)
    IN  IF byte_index < Len(key)
        THEN ((key[byte_index + 1] \div (2 ^ bit_index)) % 2) = 1
        ELSE FALSE

\* The loop of generate_merkle_path from level i with the cursor at current.
RECURSIVE merkle_path_from(_, _, _, _)
merkle_path_from(nodes, key, current, i) ==
    IF i = Height THEN [ok |-> TRUE, path |-> <<>>]
    ELSE IF current \notin DOMAIN nodes THEN [ok |-> FALSE, path |-> <<>>]
    ELSE LET node  == nodes[current]
             bit   == get_bit(key, i)
             child == IF bit THEN node.right ELSE node.left
         IN  IF child = NoHash THEN [ok |-> FALSE, path |-> <<>>]
             ELSE LET rest == merkle_path_from(nodes, key, child, i + 1)
                  IN  IF rest.ok
                      THEN [ok   |-> TRUE,
                            path |-> <<[hash |-> child, is_left |-> bit]>> \o rest.path]
                      ELSE [ok |-> FALSE, path |-> <<>>]

\* Mutant of the loop: a missing node or child is read as the zero sentinel.
RECURSIVE merkle_path_lenient(_, _, _, _)
merkle_path_lenient(nodes, key, current, i) ==
    IF i = Height THEN <<>>
    ELSE LET bit   == get_bit(key, i)
             child == IF current \notin DOMAIN nodes THEN ZeroHash
                      ELSE IF bit THEN nodes[current].right ELSE nodes[current].left
             next  == IF child = NoHash THEN ZeroHash ELSE child
         IN  <<[hash |-> next, is_left |-> bit]>>
                 \o merkle_path_lenient(nodes, key, next, i + 1)

generate_merkle_path_lenient(self, key) ==
    [ok |-> TRUE, path |-> merkle_path_lenient(self.nodes, key, self.root_hash, 0)]

\* SparseMerkleTreeI::generate_merkle_path: ok = FALSE is Err(NotFound)
generate_merkle_path(self, key) ==
    merkle_path_from(self.nodes, key, self.root_hash, 0)

\* SparseMerkleTreeI::calculate_new_root: the fold over path.iter().rev()
RECURSIVE calculate_new_root(_, _)
calculate_new_root(path, leaf_hash) ==
    IF path = <<>> THEN leaf_hash
    ELSE LET e       == path[Len(path)]
             current == leaf_hash
             folded  == IF e.is_left THEN Sha256(current \o e.hash)
                                     ELSE Sha256(e.hash \o current)
         IN  calculate_new_root(SubSeq(path, 1, Len(path) - 1), folded)

\* SparseMerkleTreeI::update.  The circuit builder is kept as the count of
\* public inputs it holds: two for the value and key cells, and in
\* add_path_constraints one per path entry and one for the root cell.
update(self, key, value) ==
    LET leaf_hash == hash_leaf(key, value)
        p         == generate_merkle_path(self, key)
    IN  IF ~p.ok
        THEN [self |-> self, ret |-> "NotFound"]
        ELSE [self |-> [self EXCEPT
                           !.public_inputs = @ + 2 + Len(p.path) + 1,
                           !.root_hash = calculate_new_root(p.path, leaf_hash)],
              ret  |-> "Ok"]

\* SparseMerkleTreeI::root
root(self) == self.root_hash

---------------------------------------------------------------------------
(* Trees described by their leaves.  No code of the source inserts into a  *)
(* node map, so populated trees are built as sections 3 and 4.1 of the     *)
(* specification describe them: a leaf hashes key and value, an interior   *)
(* node hashes its two child hashes with the zero sentinel for an absent   *)
(* child, and an empty tree has the all-zero root.                         *)

\* The bit path of a key, most significant bit first.
BitPath(key) == [i \in 1 .. Height |-> IF get_bit(key, i - 1) THEN 1 ELSE 0]

\* Hash of the subtree under a bit prefix for the leaves S, NoHash if empty.
RECURSIVE SubtreeHash(_, _)
SubtreeHash(S, prefix) ==
    IF Len(prefix) = Height
    THEN IF \E e \in S : BitPath(e.key) = prefix
         THEN LET e == CHOOSE e \in S : BitPath(e.key) = prefix
              IN  hash_leaf(e.key, e.value)
         ELSE NoHash
    ELSE LET l == SubtreeHash(S, Append(prefix, 0))
             r == SubtreeHash(S, Append(prefix, 1))
         IN  IF l = NoHash /\ r = NoHash THEN NoHash
             ELSE Sha256((IF l = NoHash THEN ZeroHash ELSE l)
                         \o (IF r = NoHash THEN ZeroHash ELSE r))

\* Root of the tree holding exactly the leaves S.
TreeRoot(S) ==
    LET top == SubtreeHash(S, <<>>)
    IN  IF top = NoHash THEN ZeroHash ELSE top

\* The tree holding exactly the leaves S, every interior node present.
ConsistentTree(S) ==
    LET prefixes == UNION {[1 .. n -> {0, 1}] : n \in 0 .. Height - 1}
        recs == {[hash  |-> SubtreeHash(S, p),
                  left  |-> SubtreeHash(S, Append(p, 0)),
                  right |-> SubtreeHash(S, Append(p, 1))] : p \in prefixes}
        live == {r \in recs : r.hash # NoHash}
    IN  [root_hash |-> TreeRoot(S),
         nodes |-> [h \in {r.hash : r \in live} |->
                       LET r == CHOOSE r \in live : r.hash = h
                       IN  [left |-> r.left, right |-> r.right]],
         public_inputs |-> 0]

\* The leaves S with key |-> value written over the leaf on the key's path.
Upsert(S, key, value) ==
    {e \in S : BitPath(e.key) # BitPath(key)} \cup {[key |-> key, value |-> value]}

\* A tree with the node stored under h lost (a corrupted or partial tree).
DropNode(tree, h) ==
    [tree EXCEPT !.nodes = [g \in (DOMAIN tree.nodes) \ {h} |-> tree.nodes[g]]]

---------------------------------------------------------------------------
(* SparseMerkleTreeR, the global tree of RootContract.  Its source file    *)
(* (core/hierarchy/root/sparse_merkle_tree_r.rs) is not part of src/; it   *)
(* is modelled from section 4.1 of the specification as the map of its     *)
(* leaves, whose root is the fold described there.                         *)

\* SparseMerkleTreeR::new
smr_new == [leaves |-> EmptyMap]

\* SparseMerkleTreeR::update_global_tree
update_global_tree(self, key, value) ==
    [self |-> [self EXCEPT !.leaves = MapPut(@, key, value)], ret |-> "Ok"]

\* SparseMerkleTreeR::get_global_root_hash
get_global_root_hash(self) ==
    TreeRoot({[key |-> a, value |-> self.leaves[a]] : a \in DOMAIN self.leaves})

---------------------------------------------------------------------------
(* u64 arithmetic *)

\* a - b on u64: panics under overflow checks, wraps without them
u64_sub(a, b, checks) ==
    IF a >= b THEN [ok |-> TRUE, val |-> a - b]
    ELSE IF checks THEN [ok |-> FALSE, val |-> 0]
    ELSE [ok |-> TRUE, val |-> a - b + MaxU64 + 1]

\* a + b on u64: panics under overflow checks, wraps without them
u64_add(a, b, checks) ==
    IF a + b <= MaxU64 THEN [ok |-> TRUE, val |-> a + b]
    ELSE IF checks THEN [ok |-> FALSE, val |-> 0]
    ELSE [ok |-> TRUE, val |-> a + b - (MaxU64 + 1)]

\* u64::to_le_bytes, the k low bytes
RECURSIVE le_bytes(_, _)
le_bytes(n, k) ==
    IF k = 0 THEN <<>> ELSE <<n % 256>> \o le_bytes(n \div 256, k - 1)

\* u64::from_le_bytes
RECURSIVE from_le_bytes(_)
from_le_bytes(b) ==
    IF b = <<>> THEN 0 ELSE b[1] + 256 * from_le_bytes(Tail(b))

---------------------------------------------------------------------------
(* RootContract *)

\* Option::None and Some((root, MerkleProof { siblings: vec![] }))
RetNone == [tag |-> "None", val |-> NoHash]
RetSome(root_hash) == [tag |-> "Some", val |-> [root |-> root_hash, siblings |-> <<>>]]
\* A panic on arithmetic overflow: the call returns nothing.
RetPanic == [tag |-> "Panic", val |-> NoHash]

\* RootContract::new
rc_new(epoch_duration) ==
    [global_tree               |-> smr_new,
     intermediate_roots        |-> EmptyMap,
     epoch                     |-> 0,
     epoch_duration            |-> epoch_duration,
     last_submission           |-> 0,
     verify_settlement_state   |-> TRUE,
     verify_intermediate_state |-> FALSE,
     verify_channel_state      |-> FALSE,
     verify_transaction_state  |-> FALSE,
     verify_storage_state      |-> FALSE,
     verify_global_state       |-> FALSE,
     verify_root_state         |-> FALSE,
     submit_settlement         |-> TRUE]

\* Mutant: an entry already present is kept (entry().or_insert).
process_intermediate_root_first_wins(self, contract_addr, root_hash, proof) ==
    LET kept == IF contract_addr \in DOMAIN self.intermediate_roots
                THEN self.intermediate_roots[contract_addr] ELSE root_hash
        u == update_global_tree(self.global_tree, contract_addr, kept)
    IN  [self |-> [self EXCEPT
                      !.intermediate_roots = MapPut(@, contract_addr, kept),
                      !.global_tree = u.self],
         ret  |-> [tag |-> "Ok", val |-> NoHash]]

\* Mutant: processing an intermediate root also opens a new epoch.
process_intermediate_root_bumps_epoch(self, contract_addr, root_hash, proof) ==
    LET u == update_global_tree(self.global_tree, contract_addr, root_hash)
    IN  [self |-> [self EXCEPT
                      !.intermediate_roots = MapPut(@, contract_addr, root_hash),
                      !.global_tree = u.self,
                      !.epoch = (@ + 1) % (MaxU64 + 1)],
         ret  |-> [tag |-> "Ok", val |-> NoHash]]

\* RootContract::process_intermediate_root
process_intermediate_root(self, contract_addr, root_hash, proof) ==
    LET inserted == [self EXCEPT
                        !.intermediate_roots = MapPut(@, contract_addr, root_hash)]
        u == update_global_tree(inserted.global_tree, contract_addr, root_hash)
    IN  IF u.ret # "Ok"
        THEN [self |-> inserted, ret |-> [tag |-> "Err", val |-> u.ret]]
        ELSE [self |-> [inserted EXCEPT !.global_tree = u.self],
              ret  |-> [tag |-> "Ok", val |-> NoHash]]

\* Mutant: the bookkeeping is done before the time gate is looked at.
try_submit_global_root_books_first(self, now, checks) ==
    LET elapsed == u64_sub(now, self.last_submission, checks)
        bumped  == u64_add(self.epoch, 1, checks)
        after   == [self EXCEPT !.epoch = bumped.val,
                                !.last_submission = now,
                                !.verify_settlement_state = TRUE,
                                !.submit_settlement = TRUE]
    IN  IF ~elapsed.ok \/ ~bumped.ok
        THEN [self |-> self, ret |-> RetPanic, gate |-> "panic"]
        ELSE IF elapsed.val < self.epoch_duration
        THEN [self |-> after, ret |-> RetNone, gate |-> "closed"]
        ELSE IF ~self.verify_global_state
        THEN [self |-> after, ret |-> RetNone, gate |-> "open"]
        ELSE [self |-> after,
              ret  |-> RetSome(get_global_root_hash(self.global_tree)),
              gate |-> "open"]

\* Mutant: with the global-state flag off the call returns before the
\* bookkeeping, so that the epoch only advances with an emission.
try_submit_global_root_coupled(self, now, checks) ==
    LET elapsed == u64_sub(now, self.last_submission, checks)
        bumped  == u64_add(self.epoch, 1, checks)
    IN  IF ~elapsed.ok
        THEN [self |-> self, ret |-> RetPanic, gate |-> "panic"]
        ELSE IF elapsed.val < self.epoch_duration
        THEN [self |-> self, ret |-> RetNone, gate |-> "closed"]
        ELSE IF ~self.verify_global_state
        THEN [self |-> self, ret |-> RetNone, gate |-> "open"]
        ELSE IF ~bumped.ok
        THEN [self |-> self, ret |-> RetPanic, gate |-> "panic"]
        ELSE [self |-> [self EXCEPT !.epoch = bumped.val,
                                    !.last_submission = now,
                                    !.verify_settlement_state = TRUE,
                                    !.submit_settlement = TRUE],
              ret  |-> RetSome(get_global_root_hash(self.global_tree)),
              gate |-> "open"]

\* Mutant: the bookkeeping of a new epoch also enables the global-state flag.
try_submit_global_root_enables(self, now, checks) ==
    LET elapsed == u64_sub(now, self.last_submission, checks)
        bumped  == u64_add(self.epoch, 1, checks)
    IN  IF ~elapsed.ok
        THEN [self |-> self, ret |-> RetPanic, gate |-> "panic"]
        ELSE IF elapsed.val < self.epoch_duration
        THEN [self |-> self, ret |-> RetNone, gate |-> "closed"]
        ELSE IF ~bumped.ok
        THEN [self |-> self, ret |-> RetPanic, gate |-> "panic"]
        ELSE LET root_hash == get_global_root_hash(self.global_tree)
                 after == [self EXCEPT !.epoch = bumped.val,
                                       !.last_submission = now,
                                       !.verify_settlement_state = TRUE,
                                       !.verify_global_state = TRUE,
                                       !.submit_settlement = TRUE]
             IN  IF ~self.verify_global_state
                 THEN [self |-> after, ret |-> RetNone, gate |-> "open"]
                 ELSE [self |-> after, ret |-> RetSome(root_hash), gate |-> "open"]

\* RootContract::try_submit_global_root; gate tells how far the call went.
try_submit_global_root(self, now, checks) ==
    LET elapsed == u64_sub(now, self.last_submission, checks)
        bumped  == u64_add(self.epoch, 1, checks)
    IN  IF ~elapsed.ok
        THEN [self |-> self, ret |-> RetPanic, gate |-> "panic"]
        ELSE IF elapsed.val < self.epoch_duration
        THEN [self |-> self, ret |-> RetNone, gate |-> "closed"]
        ELSE IF ~bumped.ok
        THEN [self |-> self, ret |-> RetPanic, gate |-> "panic"]
        ELSE LET root_hash == get_global_root_hash(self.global_tree)
                 after == [self EXCEPT !.epoch = bumped.val,
                                       !.last_submission = now,
                                       !.verify_settlement_state = TRUE,
                                       !.submit_settlement = TRUE]
             IN  IF ~self.verify_global_state
                 THEN [self |-> after, ret |-> RetNone, gate |-> "open"]
                 ELSE [self |-> after, ret |-> RetSome(root_hash), gate |-> "open"]

\* Mutant: with the flag on, the transaction is looked at.
verify_transaction_checks_tx(self, tx, proof) ==
    IF ~self.verify_transaction_state
    THEN [tag |-> "Ok", val |-> FALSE]
    ELSE [tag |-> "Ok", val |-> (tx = <<1>>)]

\* RootContract::verify_transaction
verify_transaction(self, tx, proof) ==
    IF ~self.verify_transaction_state
    THEN [tag |-> "Ok", val |-> FALSE]
    ELSE [tag |-> "Ok", val |-> TRUE]

\* RootContract::to_state_data
to_state_data(self) ==
    le_bytes(self.epoch, 8) \o le_bytes(self.epoch_duration, 8)
        \o le_bytes(self.last_submission, 8)
        \o <<IF self.verify_settlement_state THEN 1 ELSE 0>>
        \o <<IF self.submit_settlement THEN 1 ELSE 0>>

\* RootContract::deserialize; boc.roots is a sequence of byte strings.
deserialize(boc) ==
    IF boc.roots = <<>> THEN [tag |-> "Err", val |-> "NotFound"]
    ELSE LET state_data == boc.roots[1]
         IN  IF Len(state_data) < 26 THEN [tag |-> "Err", val |-> "NotFound"]
             ELSE [tag |-> "Ok",
                   val |-> [global_tree               |-> smr_new,
                            intermediate_roots        |-> EmptyMap,
                            epoch           |-> from_le_bytes(SubSeq(state_data, 1, 8)),
                            epoch_duration  |-> from_le_bytes(SubSeq(state_data, 9, 16)),
                            last_submission |-> from_le_bytes(SubSeq(state_data, 17, 24)),
                            verify_settlement_state   |-> state_data[25] # 0,
                            verify_intermediate_state |-> FALSE,
                            verify_channel_state      |-> FALSE,
                            verify_transaction_state  |-> FALSE,
                            verify_storage_state      |-> FALSE,
                            verify_global_state       |-> FALSE,
                            verify_root_state         |-> FALSE,
                            submit_settlement         |-> state_data[26] # 0]]

---------------------------------------------------------------------------
(* Inputs *)

\* Keys handed to update: the empty key and one one-byte key per bit path.
Keys == {<<>>} \cup {<<p * (2 ^ (8 - Height))>> : p \in 0 .. (2 ^ Height) - 1}

\* Values handed to update.
Values == {<<1>>, <<2>>}

\* One leaf per bit path, and a single leaf.
FullLeaves == {[key |-> k, value |-> <<1>>] : k \in Keys \ {<<>>}}
OneLeaf == {[key |-> <<>>, value |-> <<2>>]}

\* Tree states handed to update: empty, populated, and with one node lost.
TreeInputs ==
    LET full == ConsistentTree(FullLeaves)
        one  == ConsistentTree(OneLeaf)
    IN  {smt_new, full, one}
            \cup {DropNode(full, h) : h \in DOMAIN full.nodes}
            \cup {DropNode(one, h) : h \in DOMAIN one.nodes}

\* Contract addresses ([u8; 32]) with different leading bits.
Addresses == {<<0>> \o Tail(ZeroHash), <<128>> \o Tail(ZeroHash)}

\* Intermediate roots handed to process_intermediate_root.
Roots == {Sha256(<<1>>), Sha256(<<2>>)}

\* Clock readings, epoch durations and header fields.
U64 == 0 .. MaxU64

\* Transactions and proofs handed to verify_transaction.
Txs == {<<1>>, <<2>>}
Proofs == {<<>>, <<ZeroHash>>}

\* The tree state that follows the header in a serialized aggregator: the
\* (address, root) pairs (section 4.2: "followed by opaque tree state").
RECURSIVE tree_state_bytes(_, _)
tree_state_bytes(roots, addrs) ==
    IF addrs = {} THEN <<>>
    ELSE LET a == CHOOSE a \in addrs : TRUE
         IN  (IF a \in DOMAIN roots THEN a \o roots[a] ELSE <<>>)
                 \o tree_state_bytes(roots, addrs \ {a})

\* The serialized aggregator: one root cell, header then tree state.
serialize(self) ==
    [roots |-> <<to_state_data(self)
                    \o tree_state_bytes(self.intermediate_roots, Addresses)>>]

---------------------------------------------------------------------------
(* StorageNode *)

\* Minimum viable stake: the literal of `if initial_stake < 1000`.
MinStake == 1000

\* Largest charge BatteryChargingSystem::new may start with in the model.
MaxCharge == 2

\* Number of store_update calls that may be in flight at once.
MaxStoreTasks == 2

\* Number of convert_lock_to_state calls that may be in flight at once.
MaxConverts == 2

\* Result<T, SystemError>
Ok(v) == [tag |-> "Ok", err |-> "", val |-> v]
Err(error_type) == [tag |-> "Err", err |-> error_type, val |-> <<>>]

\* No StorageNode has been constructed.
NoNode == [exists |-> FALSE]

\* StorageNodeConfig: carried by the node, read by no operation.
DefaultConfig == [fee |-> 0]

\* bincode::serialize of a BOC: every sequence is written as its length
\* followed by its elements.
RECURSIVE bincode_seq(_)
bincode_seq(cells) ==
    IF cells = <<>> THEN <<>>
    ELSE <<Len(Head(cells))>> \o Head(cells) \o bincode_seq(Tail(cells))

bincode_serialize(boc) ==
    <<Len(boc.cells)>> \o bincode_seq(boc.cells)
        \o <<Len(boc.roots)>> \o bincode_seq(boc.roots)

\* BatteryChargingSystem::new: the charge it starts with is not fixed by
\* the sources at hand and is an input.
battery_new(initial_stake, charge) == [charge |-> charge]

\* BatteryChargingSystem::charge_for_processing: debits one processing unit,
\* fails when the charge cannot cover it.
charge_for_processing(battery) ==
    IF battery.charge >= 1
    THEN [self |-> [battery EXCEPT !.charge = @ - 1], ret |-> Ok(<<>>)]
    ELSE [self |-> battery, ret |-> Err("Insufficient")]

\* StorageNode::new with a wrong bound on the stake.
sn_new_off_by_one(node_id, initial_stake, config, peers, charge) ==
    IF initial_stake <= MinStake
    THEN [self |-> NoNode, ret |-> Err("InvalidAmount")]
    ELSE [self |-> [exists |-> TRUE,
                    node_id |-> node_id,
                    stake |-> initial_stake,
                    stored_bocs |-> EmptyMap,
                    stored_proofs |-> EmptyMap,
                    battery_system |-> battery_new(initial_stake, charge),
                    config |-> config,
                    peers |-> peers],
          ret |-> Ok(<<>>)]

\* StorageNode::new
sn_new(node_id, initial_stake, config, peers, charge) ==
    IF initial_stake < MinStake
    THEN [self |-> NoNode, ret |-> Err("InvalidAmount")]
    ELSE [self |-> [exists |-> TRUE,
                    node_id |-> node_id,
                    stake |-> initial_stake,
                    stored_bocs |-> EmptyMap,
                    stored_proofs |-> EmptyMap,
                    battery_system |-> battery_new(initial_stake, charge),
                    config |-> config,
                    peers |-> peers],
          ret |-> Ok(<<>>)]

\* StorageNode::hash_boc_internal
hash_boc_internal(boc) == Sha256(bincode_serialize(boc))

\* verify_proof_internal that only counts the public inputs.
verify_proof_internal_len_only(proof, boc) ==
    Len(proof.public_inputs) = 1

\* StorageNode::verify_proof_internal: the binding check; the cryptographic
\* check is commented out in the source and the result is then Ok(true).
verify_proof_internal(proof, boc) ==
    LET boc_hash == hash_boc_internal(boc)
    IN  IF Len(proof.public_inputs) # 1 \/ proof.public_inputs[1] # boc_hash
        THEN FALSE
        ELSE TRUE

\* store_update that checks the proof before it debits the battery.
store_update_admit_proof_first(self, boc, proof) ==
    IF ~verify_proof_internal(proof, boc)
    THEN [self |-> self, ret |-> Err("InvalidProof")]
    ELSE LET c == charge_for_processing(self.battery_system)
         IN  IF c.ret.tag = "Err"
             THEN [self |-> self, ret |-> Err("BatteryError")]
             ELSE [self |-> [self EXCEPT !.battery_system = c.self],
                   ret |-> Ok(<<>>)]

\* StorageNode::store_update, lines 86-100, run under the battery lock: the
\* debit, then the binding check.  ret is Ok when the call goes on to insert.
store_update_admit(self, boc, proof) ==
    LET c == charge_for_processing(self.battery_system)
        charged == [self EXCEPT !.battery_system = c.self]
    IN  IF c.ret.tag = "Err"
        THEN [self |-> self, ret |-> Err("BatteryError")]
        ELSE IF ~verify_proof_internal(proof, boc)
             THEN [self |-> charged, ret |-> Err("InvalidProof")]
             ELSE [self |-> charged, ret |-> Ok(<<>>)]

\* StorageNode::store_update, lines 102-105, run under the object-map lock.
store_update_insert_boc(self, boc) ==
    [self EXCEPT !.stored_bocs = MapPut(@, hash_boc_internal(boc), boc)]

\* StorageNode::store_update, lines 107-108, run under the proof-map lock.
store_update_insert_proof(self, boc, proof) ==
    [self EXCEPT !.stored_proofs = MapPut(@, hash_boc_internal(boc), proof)]

\* The object-map guard dropped before the proof map is locked.
held_battery_only == {"battery"}

\* The locks store_update holds while it waits for the proof-map lock at
\* line 107: the battery guard of line 86 and the object-map guard of
\* line 104 both live to the end of their scopes.
held_while_awaiting_proofs == {"battery", "bocs"}

\* StorageNode::retrieve_boc
retrieve_boc(self, boc_id) ==
    IF boc_id \in DOMAIN self.stored_bocs
    THEN Ok(self.stored_bocs[boc_id])
    ELSE Err("NotFound")

\* StorageNode::retrieve_proof
retrieve_proof(self, proof_id) ==
    IF proof_id \in DOMAIN self.stored_proofs
    THEN Ok(self.stored_proofs[proof_id])
    ELSE Err("NotFound")

\* remove_peer that clears the node's maps as well.
remove_peer_purges(self, peer_id) ==
    [self EXCEPT !.peers = @ \ {peer_id},
                 !.stored_bocs = EmptyMap, !.stored_proofs = EmptyMap]

\* StorageNode::add_peer
add_peer(self, peer_id) == [self EXCEPT !.peers = @ \cup {peer_id}]

\* StorageNode::remove_peer
remove_peer(self, peer_id) == [self EXCEPT !.peers = @ \ {peer_id}]

---------------------------------------------------------------------------
(* ResponseManager *)

MAX_VERIFICATION_ATTEMPTS == 3
DEFAULT_BACKOFF_MS == 1000
MIN_RESPONSE_THRESHOLD == 1
MIN_RESPONSE_INTERVAL == 1000

\* MAX_RESPONSE_SIZE, in cells; the source sets 1024 * 1024 (response.rs:18),
\* scaled down here.
MAX_RESPONSE_SIZE == 2

\* Number of verification loops that may be alive at once in the model.
MaxLoops == 2

\* A cycle is started only while total_verifications is below this.
MaxVerifications == 2

\* No ResponseManager was returned.
NoManager == [exists |-> FALSE]

\* VerificationMetrics::default with the configured threshold and interval.
\* The running average of the verification time is a function of wall-clock
\* readings and is left out.
metrics_new(response_threshold, response_interval) ==
    [total_verifications |-> 0,
     successful_verifications |-> 0,
     failed_verifications |-> 0,
     response_threshold |-> response_threshold,
     response_interval |-> response_interval]

\* The ResponseManager value built at the end of ResponseManager::create.
rm_new(response_threshold, response_interval) ==
    [exists |-> TRUE,
     response_threshold |-> response_threshold,
     response_interval |-> response_interval,
     is_verifying |-> FALSE,
     metrics |-> metrics_new(response_threshold, response_interval),
     last_verification_time |-> "None"]

\* create that validates the interval before the threshold.
create_interval_first(node_id, response_threshold, response_interval, charge) ==
    IF response_interval < MIN_RESPONSE_INTERVAL
    THEN [self |-> NoManager, ret |-> Err("InvalidInterval")]
    ELSE IF response_threshold < MIN_RESPONSE_THRESHOLD
    THEN [self |-> NoManager, ret |-> Err("InvalidThreshold")]
    ELSE [self |-> NoManager, ret |-> Err("StorageError")]

\* ResponseManager::create.  After the two validations it builds its storage
\* node with StorageNode::new(node_id, 0, config): the second argument is the
\* initial stake.
create(node_id, response_threshold, response_interval, charge) ==
    IF response_threshold < MIN_RESPONSE_THRESHOLD
    THEN [self |-> NoManager, ret |-> Err("InvalidThreshold")]
    ELSE IF response_interval < MIN_RESPONSE_INTERVAL
    THEN [self |-> NoManager, ret |-> Err("InvalidInterval")]
    ELSE LET n == sn_new(node_id, 0, DefaultConfig, {}, charge)
         IN  IF n.ret.tag = "Err"
             THEN [self |-> NoManager, ret |-> Err("StorageError")]
             ELSE [self |-> rm_new(response_threshold, response_interval),
                   ret |-> Ok(<<>>)]

\* start_verification that sets the flag without testing it.
start_verification_unguarded(self) ==
    [self |-> [self EXCEPT !.is_verifying = TRUE], ret |-> Ok(<<>>), spawn |-> TRUE]

\* ResponseManager::start_verification: the compare_exchange(false, true)
\* and, when it succeeds, the spawn of the loop.
start_verification(self) ==
    IF self.is_verifying # FALSE
    THEN [self |-> self, ret |-> Err("VerificationInProgress"), spawn |-> FALSE]
    ELSE [self |-> [self EXCEPT !.is_verifying = TRUE], ret |-> Ok(<<>>),
          spawn |-> TRUE]

\* ResponseManager::stop_verification
stop_verification(self) == [self EXCEPT !.is_verifying = FALSE]

\* ResponseManager::is_currently_verifying
is_currently_verifying(self) == self.is_verifying

\* ResponseManager::get_metrics
get_metrics(self) == self.metrics

RECURSIVE total_cells(_, _)
\* The sum of boc.cells.len() over the given keys of the object map.
total_cells(stored, keys) ==
    IF keys = {} THEN 0
    ELSE LET k == CHOOSE x \in keys : TRUE
         IN  Len(stored[k].cells) + total_cells(stored, keys \ {k})

\* check_response_verification without the size ceiling.
check_response_verification_unbounded(self, node, order) ==
    IF Cardinality(DOMAIN node.stored_bocs) >= self.response_threshold
    THEN [ret |-> Ok(<<>>), responses |-> order]
    ELSE [ret |-> Ok(<<>>), responses |-> <<>>]

\* ResponseManager::check_response_verification up to the call of
\* verify_responses, run under the object-map lock: the size ceiling, the
\* threshold, the keys handed on.  order is the order in which the HashMap
\* yields its keys.
check_response_verification(self, node, order) ==
    LET stored_responses == node.stored_bocs
        total_size == total_cells(stored_responses, DOMAIN stored_responses)
        response_count == Cardinality(DOMAIN stored_responses)
    IN  IF total_size > MAX_RESPONSE_SIZE
        THEN [ret |-> Err("InvalidInput"), responses |-> <<>>]
        ELSE IF response_count >= self.response_threshold
        THEN [ret |-> Ok(<<>>), responses |-> order]
        ELSE [ret |-> Ok(<<>>), responses |-> <<>>]

\* Mutant: a verified proof is counted in the total alone.
verify_single_response_total_only(self, node, proof_hash) ==
    IF proof_hash \notin DOMAIN node.stored_proofs
    THEN [self |-> self, ret |-> Err("InvalidProof")]
    ELSE [self |-> [self EXCEPT !.metrics.total_verifications = @ + 1],
          ret |-> Ok(<<>>)]

\* ResponseManager::verify_single_response, run under the proof-map lock:
\* the lookup, and on success one total and one successful verification.
verify_single_response(self, node, proof_hash) ==
    IF proof_hash \notin DOMAIN node.stored_proofs
    THEN [self |-> self, ret |-> Err("InvalidProof")]
    ELSE [self |-> [self EXCEPT
                       !.metrics.total_verifications = @ + 1,
                       !.metrics.successful_verifications = @ + 1],
          ret |-> Ok(<<>>)]

\* The wait of verify_responses after a failed attempt that was not the last.
backoff_delay(attempts) == DEFAULT_BACKOFF_MS * (2 ^ attempts)

\* A tally that counts a failed cycle once per attempt made on its proof.
record_cycle_per_attempt(self, ret) ==
    [self EXCEPT
        !.metrics.total_verifications = @ + 1,
        !.metrics.successful_verifications = IF ret.tag = "Ok" THEN @ + 1 ELSE @,
        !.metrics.failed_verifications =
            IF ret.tag = "Err" THEN @ + MAX_VERIFICATION_ATTEMPTS ELSE @,
        !.last_verification_time = "Some"]

\* A tally that starts the counters over with the cycle's own result.
record_cycle_restarts(self, ret) ==
    [self EXCEPT
        !.metrics.total_verifications = 1,
        !.metrics.successful_verifications = IF ret.tag = "Ok" THEN 1 ELSE 0,
        !.metrics.failed_verifications = IF ret.tag = "Err" THEN 1 ELSE 0,
        !.last_verification_time = "Some"]

\* The match of the loop body on the result of a cycle: one total and one
\* successful or failed verification, then last_verification_time.
record_cycle(self, ret) ==
    [self EXCEPT
        !.metrics.total_verifications = @ + 1,
        !.metrics.successful_verifications = IF ret.tag = "Ok" THEN @ + 1 ELSE @,
        !.metrics.failed_verifications = IF ret.tag = "Err" THEN @ + 1 ELSE @,
        !.last_verification_time = "Some"]

\* ResponseManager::delay_with_cancellation up to its await: Err when the
\* flag is already down, otherwise the timer is awaited.
delay_with_cancellation(self) ==
    IF ~self.is_verifying THEN Err("Cancelled") ELSE Ok(<<>>)

---------------------------------------------------------------------------
(* BitcoinStateConverter.  Its state tree (SparseMerkleTreeWasm,           *)
(* wallet_extension/sparse_merkle_tree_wasm.rs) and its proof backend      *)
(* (Plonky2SystemHandle, core/zkps/plonky2.rs) are not part of src/.  The  *)
(* tree is modelled from sections 3 and 4.1 of the specification as the    *)
(* map of its leaves; the answers of the backend are inputs of the calls.  *)
(* The RwLock around the tree is poisoned only when a holder of the write  *)
(* lock panicked, which no operation of the model does, so that every      *)
(* read() and write() succeeds.                                            *)

\* A call that panicked on an arithmetic overflow.
Panicked == [tag |-> "Panic", err |-> "overflow", val |-> FALSE]

\* SparseMerkleTreeWasm::new: the empty tree.
wasm_new == [leaves |-> EmptyMap]

\* SparseMerkleTreeWasm::root: the all-zero sentinel for the empty tree,
\* otherwise the hash of the top node.
wasm_root(self) ==
    TreeRoot({[key |-> k, value |-> self.leaves[k]] : k \in DOMAIN self.leaves})

\* The channel ids that key the state tree, and the trees over them.
ChannelIds == {ZeroHash, <<128>> \o Tail(ZeroHash)}
WasmLeafSets ==
    {{[key |-> k, value |-> f[k]] : k \in DOMAIN f} :
        f \in UNION {[K -> {<<1>>, <<2>>}] : K \in SUBSET ChannelIds}}

\* SparseMerkleTreeWasm::verify_root_transition: whether new_root is
\* derivable from prev_root by a single leaf update along some path.
wasm_verify_root_transition(self, prev_root, new_root) ==
    \E S \in WasmLeafSets :
        /\ TreeRoot(S) = prev_root
        /\ \E k \in ChannelIds, v \in {<<1>>, <<2>>} :
               TreeRoot(Upsert(S, k, v)) = new_root

\* Plonky2SystemHandle::verify_proof_js, by the answer the backend gives.
verify_proof_js(answer) ==
    IF answer = "error" THEN Err("JsValue") ELSE Ok(answer = "true")

\* Plonky2SystemHandle::generate_proof, by the answer the backend gives.
generate_proof(answer) ==
    IF answer = "error" THEN Err("ProofGenerationError")
    ELSE Ok([proof_data |-> <<7>>, public_inputs |-> <<>>])

\* BitcoinStateConverter::new on a new state tree.
bsc_new == [state_tree |-> wasm_new]

\* BitcoinStateConverter::verify_state_constraints.  prev.sequence + 1 is
\* taken on u64.
verify_state_constraints(prev_state, new_state, checks) ==
    IF prev_state.channel_id # new_state.channel_id
    THEN Ok(FALSE)
    ELSE LET next == u64_add(prev_state.sequence, 1, checks)
         IN  IF ~next.ok THEN Panicked
             ELSE IF new_state.sequence # next.val THEN Ok(FALSE)
             ELSE IF prev_state.pubkey_hash # new_state.pubkey_hash THEN Ok(FALSE)
             ELSE Ok(TRUE)

\* BitcoinStateConverter::verify_root_transition
verify_root_transition(self, prev_root, new_root) ==
    Ok(wasm_verify_root_transition(self.state_tree, prev_root, new_root))

\* verify_state_transition that hands the transition to the proof backend
\* without the root-transition check.
verify_state_transition_ungated(self, prev_state, new_state, proof, verdict, checks) ==
    LET constraints == verify_state_constraints(prev_state, new_state, checks)
    IN  IF constraints.tag = "Panic"
        THEN [ret |-> Panicked, root_consulted |-> FALSE, backend_consulted |-> FALSE]
        ELSE IF ~constraints.val
        THEN [ret |-> Ok(FALSE), root_consulted |-> FALSE, backend_consulted |-> FALSE]
        ELSE [ret |-> IF verify_proof_js(verdict).tag = "Err"
                      THEN Err("VerificationError")
                      ELSE verify_proof_js(verdict),
              root_consulted |-> FALSE, backend_consulted |-> TRUE]

\* BitcoinStateConverter::verify_state_transition.  verdict is the answer
\* of proof_system.verify_proof_js to the two roots and the new balance;
\* the proof argument is not read.  The result tells which checks were
\* consulted.
verify_state_transition(self, prev_state, new_state, proof, verdict, checks) ==
    LET constraints == verify_state_constraints(prev_state, new_state, checks)
        transition == verify_root_transition(self, prev_state.state_root,
                                             new_state.state_root)
    IN  IF constraints.tag = "Panic"
        THEN [ret |-> Panicked, root_consulted |-> FALSE, backend_consulted |-> FALSE]
        ELSE IF ~constraints.val
        THEN [ret |-> Ok(FALSE), root_consulted |-> FALSE, backend_consulted |-> FALSE]
        ELSE IF ~transition.val
        THEN [ret |-> Ok(FALSE), root_consulted |-> TRUE, backend_consulted |-> FALSE]
        ELSE [ret |-> IF verify_proof_js(verdict).tag = "Err"
                      THEN Err("VerificationError")
                      ELSE verify_proof_js(verdict),
              root_consulted |-> TRUE, backend_consulted |-> TRUE]

\* BitcoinStateConverter::generate_settlement_proof: the answer of
\* proof_system.generate_proof to state_root, balance and pubkey_hash.
generate_settlement_proof(self, final_state, generated) ==
    generate_proof(generated)

\* BitcoinStateConverter::prepare_settlement
prepare_settlement(self, final_state, generated) ==
    LET tree_root == wasm_root(self.state_tree)
        proof == generate_settlement_proof(self, final_state, generated)
    IN  IF tree_root # final_state.state_root
        THEN Err("InvalidState")
        ELSE IF proof.tag = "Err"
        THEN proof
        ELSE Ok([lock_state |-> [lock_amount |-> final_state.current_balance,
                                 lock_script_hash |-> ZeroHash,
                                 lock_height |-> 0,
                                 pubkey_hash |-> final_state.pubkey_hash,
                                 sequence |-> final_state.sequence],
                 proof |-> proof.val])

\* SparseMerkleTreeWasm::update: the leaf at key becomes value.
wasm_update(self, key, value) ==
    [self EXCEPT !.leaves = MapPut(@, key, value)]

\* The sum of the bytes of a byte string.
RECURSIVE ByteSum(_)
ByteSum(bytes) ==
    IF bytes = <<>> THEN 0 ELSE Head(bytes) + ByteSum(Tail(bytes))

\* BitcoinStateConverter::generate_channel_id: the double SHA-256 of
\* lock_script_hash, lock_height (4 bytes, little-endian) and pubkey_hash.
\* The state tree reads the leading Height bits of a key; the digest is
\* kept to 32 bytes and to one leading bit, the parity of what is hashed,
\* by which the lock states of the model get distinct channel ids.
generate_channel_id(lock_state) ==
    LET preimage == lock_state.lock_script_hash
                        \o le_bytes(lock_state.lock_height, 4)
                        \o lock_state.pubkey_hash
    IN  <<128 * (ByteSum(preimage) % 2)>> \o Tail(ZeroHash)

\* convert_lock_to_state up to the end of its write-lock block: the leaf
\* of the channel becomes lock_amount (8 bytes, little-endian), pubkey_hash
\* and 32 zero bytes.
convert_lock_update(self, lock_state) ==
    [self EXCEPT !.state_tree =
        wasm_update(@, generate_channel_id(lock_state),
                    le_bytes(lock_state.lock_amount, 8)
                        \o lock_state.pubkey_hash \o ZeroHash)]

\* convert_lock_to_state after its write-lock block: the proof is asked
\* of the backend (generated is its answer) and the state is built, its
\* state_root read from the tree under a read lock.  nonce is 0 and
\* merkle_proof the proof taken in the write-lock block.
convert_lock_read(self, lock_state, generated) ==
    IF generate_proof(generated).tag = "Err"
    THEN Err("ProofGenerationError")
    ELSE Ok([channel_id |-> generate_channel_id(lock_state),
             state_root |-> wasm_root(self.state_tree),
             current_balance |-> lock_state.lock_amount,
             sequence |-> lock_state.sequence,
             pubkey_hash |-> lock_state.pubkey_hash])

---------------------------------------------------------------------------
(* Inputs of the storage node *)

\* Bags of cells: one cell, and two cells.
Bocs == {[cells |-> << <<1>> >>, roots |-> <<>>],
         [cells |-> << <<2>>, <<3>> >>, roots |-> <<>>]}

BocIds == {hash_boc_internal(b) : b \in Bocs}

\* The object with content hash h.
BocOf(h) == CHOOSE b \in Bocs : hash_boc_internal(b) = h

\* Proof artifacts: two bound to each object (they differ in their proof
\* bytes), one with no public input, one with two.
ZkProofs ==
    {[proof_data |-> d, public_inputs |-> <<h>>] : d \in {<<7>>, <<8>>}, h \in BocIds}
    \cup {[proof_data |-> <<7>>, public_inputs |-> <<>>]}
    \cup {[proof_data |-> <<7>>, public_inputs |-> <<h, h>>] : h \in BocIds}

Stakes == {0, MinStake - 1, MinStake, MinStake + 1}

PeerIds == {ZeroHash}

StoreTasks == 1 .. MaxStoreTasks

\* The objects a node may hold without a proof when a manager is put on it:
\* the one-cell object of Bocs, and a one-cell object that no store_update
\* of the model brings.
HeldBocs == {[cells |-> << <<1>> >>, roots |-> <<>>],
             [cells |-> << <<9>> >>, roots |-> <<>>]}

---------------------------------------------------------------------------
(* Actions on the tree *)

\* The last two calls, oldest first.
Remember(calls, c) ==
    IF Len(calls) < 2 THEN Append(calls, c) ELSE <<calls[2], c>>

\* A caller runs tree.update(key, value).
Update(key, value) ==
    LET r == update(smt, key, value)
    IN  /\ smt' = r.self
        /\ smt_calls' = Remember(smt_calls,
               [key |-> key, value |-> value, ret |-> r.ret,
                pre |-> smt, post |-> r.self])
        /\ UNCHANGED root_vars
        /\ UNCHANGED <<node_vars, mgr_vars, conv_vars>>

---------------------------------------------------------------------------
(* Actions on the aggregator *)

NoCall == [op |-> "none", now |-> 0, addr |-> NoHash, root |-> NoHash,
           tx |-> <<>>, proof |-> <<>>, gate |-> "none",
           ret |-> RetNone, pre |-> NoHash, prev_pass |-> -1]

\* A caller runs rc.process_intermediate_root(addr, root, proof).
ProcessIntermediateRoot(addr, root_hash, proof) ==
    LET r == process_intermediate_root(rc, addr, root_hash, proof)
    IN  /\ rc' = r.self
        /\ rc_call' = [NoCall EXCEPT !.op = "process_intermediate_root",
                           !.addr = addr, !.root = root_hash, !.proof = proof,
                           !.ret = r.ret, !.pre = rc, !.prev_pass = last_pass]
        /\ UNCHANGED <<overflow_checks, last_pass, emitted, gap_ok>>
        /\ UNCHANGED tree_vars
        /\ UNCHANGED <<node_vars, mgr_vars, conv_vars>>

\* A caller runs rc.try_submit_global_root(now).
TrySubmitGlobalRoot(now) ==
    LET r == try_submit_global_root(rc, now, overflow_checks)
        far(t) == IF now >= t THEN now - t ELSE t - now
    IN  /\ rc' = r.self
        /\ rc_call' = [NoCall EXCEPT !.op = "try_submit_global_root",
                           !.now = now, !.gate = r.gate,
                           !.ret = r.ret, !.pre = rc, !.prev_pass = last_pass]
        /\ last_pass' = IF r.gate = "open" THEN now ELSE last_pass
        /\ emitted' = IF r.ret.tag = "Some" THEN emitted \cup {now} ELSE emitted
        /\ gap_ok' = (gap_ok /\ (r.ret.tag = "Some" =>
                         \A t \in emitted : far(t) >= rc.epoch_duration))
        /\ UNCHANGED overflow_checks
        /\ UNCHANGED tree_vars
        /\ UNCHANGED <<node_vars, mgr_vars, conv_vars>>

\* A caller runs rc.verify_transaction(tx, proof).
VerifyTransaction(tx, proof) ==
    /\ rc' = rc
    /\ rc_call' = [NoCall EXCEPT !.op = "verify_transaction",
                       !.tx = tx, !.proof = proof,
                       !.ret = verify_transaction(rc, tx, proof),
                       !.pre = rc, !.prev_pass = last_pass]
    /\ UNCHANGED <<overflow_checks, last_pass, emitted, gap_ok>>
    /\ UNCHANGED tree_vars
    /\ UNCHANGED <<node_vars, mgr_vars, conv_vars>>

\* The aggregator is serialized and the bytes are deserialized into a new
\* object, kept as the result of the call; rc itself is not touched.
SerializeDeserialize ==
    /\ rc' = rc
    /\ rc_call' = [NoCall EXCEPT !.op = "serialize_deserialize",
                       !.ret = deserialize(serialize(rc)),
                       !.pre = rc, !.prev_pass = last_pass]
    /\ UNCHANGED <<overflow_checks, last_pass, emitted, gap_ok>>
    /\ UNCHANGED tree_vars
    /\ UNCHANGED <<node_vars, mgr_vars, conv_vars>>

---------------------------------------------------------------------------
(* Actions on the storage node *)

NoBoc == [cells |-> <<>>, roots |-> <<>>]
NoProof == [proof_data |-> <<>>, public_inputs |-> <<>>]

NoNodeCall == [op |-> "none", boc |-> NoBoc, proof |-> NoProof, id |-> NoHash,
               stake |-> 0, ret |-> Ok(<<>>), pre |-> NoNode, post |-> NoNode]

IdleTask == [pc |-> "idle", boc |-> NoBoc, proof |-> NoProof, pre |-> NoNode]

FreeLocks == [battery |-> 0, bocs |-> 0, proofs |-> 0]

\* A caller runs StorageNode::new(node_id, stake, config, peers).
New(node_id, stake, config, peers, charge) ==
    LET r == sn_new(node_id, stake, config, peers, charge)
    IN  /\ ~storage_node.exists
        /\ storage_node' = r.self
        /\ node_call' = [NoNodeCall EXCEPT !.op = "new", !.id = node_id,
                             !.stake = stake, !.ret = r.ret, !.post = r.self]
        /\ UNCHANGED <<locks, store_tasks, admitted>>
        /\ UNCHANGED <<tree_vars, root_vars, mgr_vars, conv_vars>>

\* Task t gets the battery lock of store_update(boc, proof), debits the
\* battery and checks the binding.  A rejected call returns here and drops
\* the lock; an admitted one keeps it and goes on to the object map.
Admit(t, boc, proof) ==
    LET r == store_update_admit(storage_node, boc, proof)
    IN  /\ storage_node.exists
        /\ locks.battery = 0
        /\ storage_node' = r.self
        /\ IF r.ret.tag = "Err"
           THEN /\ node_call' = [NoNodeCall EXCEPT !.op = "store_update",
                                     !.boc = boc, !.proof = proof,
                                     !.ret = r.ret, !.pre = storage_node,
                                     !.post = r.self]
                /\ store_tasks' = [store_tasks EXCEPT ![t] = IdleTask]
                /\ UNCHANGED locks
           ELSE /\ locks' = [locks EXCEPT !.battery = t]
                /\ store_tasks' = [store_tasks EXCEPT ![t] =
                       [pc |-> "lock_bocs", boc |-> boc, proof |-> proof,
                        pre |-> storage_node]]
                /\ UNCHANGED node_call
        /\ UNCHANGED admitted
        /\ UNCHANGED <<tree_vars, root_vars, mgr_vars, conv_vars>>

\* Task t enters store_update(boc, proof) when the battery lock is free.
StoreAdmit(t, boc, proof) ==
    /\ store_tasks[t].pc = "idle"
    /\ Admit(t, boc, proof)

\* Task t calls store_update(boc, proof) and waits for the battery lock.
StoreCall(t, boc, proof) ==
    /\ storage_node.exists
    /\ store_tasks[t].pc = "idle"
    /\ store_tasks' = [store_tasks EXCEPT ![t] =
           [IdleTask EXCEPT !.pc = "lock_battery", !.boc = boc, !.proof = proof]]
    /\ UNCHANGED <<storage_node, locks, node_call, admitted>>
    /\ UNCHANGED <<tree_vars, root_vars, mgr_vars, conv_vars>>

\* Task t, waiting in store_update, gets the battery lock.
StoreEnter(t) ==
    /\ store_tasks[t].pc = "lock_battery"
    /\ Admit(t, store_tasks[t].boc, store_tasks[t].proof)

\* Task t gets the object-map lock and inserts the object.
StoreInsertBoc(t) ==
    /\ store_tasks[t].pc = "lock_bocs"
    /\ locks.bocs = 0
    /\ storage_node' = store_update_insert_boc(storage_node, store_tasks[t].boc)
    /\ locks' = [locks EXCEPT
           !.battery = IF "battery" \in held_while_awaiting_proofs THEN t ELSE 0,
           !.bocs = IF "bocs" \in held_while_awaiting_proofs THEN t ELSE 0]
    /\ store_tasks' = [store_tasks EXCEPT ![t].pc = "lock_proofs"]
    /\ UNCHANGED <<node_call, admitted>>
    /\ UNCHANGED <<tree_vars, root_vars, mgr_vars, conv_vars>>

\* Task t gets the proof-map lock and inserts the proof.
StoreInsertProof(t) ==
    /\ store_tasks[t].pc = "lock_proofs"
    /\ locks.proofs = 0
    /\ storage_node' = store_update_insert_proof(storage_node,
                           store_tasks[t].boc, store_tasks[t].proof)
    /\ locks' = [locks EXCEPT !.proofs = t]
    /\ store_tasks' = [store_tasks EXCEPT ![t].pc = "return"]
    /\ UNCHANGED <<node_call, admitted>>
    /\ UNCHANGED <<tree_vars, root_vars, mgr_vars, conv_vars>>

\* Mutant: task t leaves store_update and its proof-map guard is never
\* dropped.
StoreReturnKeepsGuard(t) ==
    LET boc_id == hash_boc_internal(store_tasks[t].boc)
        before == IF boc_id \in DOMAIN admitted THEN admitted[boc_id] ELSE <<>>
    IN  /\ store_tasks[t].pc = "return"
        /\ locks' = [l \in DOMAIN locks |->
                        IF locks[l] = t /\ l # "proofs" THEN 0 ELSE locks[l]]
        /\ node_call' = [NoNodeCall EXCEPT !.op = "store_update",
                             !.boc = store_tasks[t].boc,
                             !.proof = store_tasks[t].proof,
                             !.ret = Ok(<<>>), !.pre = store_tasks[t].pre,
                             !.post = storage_node]
        /\ admitted' = MapPut(admitted, boc_id, Append(before, store_tasks[t].proof))
        /\ store_tasks' = [store_tasks EXCEPT ![t] = IdleTask]
        /\ UNCHANGED storage_node
        /\ UNCHANGED <<tree_vars, root_vars, mgr_vars, conv_vars>>

\* Task t leaves store_update with Ok(()): its guards are dropped.
StoreReturn(t) ==
    LET boc_id == hash_boc_internal(store_tasks[t].boc)
        before == IF boc_id \in DOMAIN admitted THEN admitted[boc_id] ELSE <<>>
    IN  /\ store_tasks[t].pc = "return"
        /\ locks' = [l \in DOMAIN locks |-> IF locks[l] = t THEN 0 ELSE locks[l]]
        /\ node_call' = [NoNodeCall EXCEPT !.op = "store_update",
                             !.boc = store_tasks[t].boc,
                             !.proof = store_tasks[t].proof,
                             !.ret = Ok(<<>>), !.pre = store_tasks[t].pre,
                             !.post = storage_node]
        /\ admitted' = MapPut(admitted, boc_id, Append(before, store_tasks[t].proof))
        /\ store_tasks' = [store_tasks EXCEPT ![t] = IdleTask]
        /\ UNCHANGED storage_node
        /\ UNCHANGED <<tree_vars, root_vars, mgr_vars, conv_vars>>

\* A caller runs retrieve_boc(boc_id): the object map is read under its lock.
RetrieveBoc(boc_id) ==
    /\ storage_node.exists
    /\ locks.bocs = 0
    /\ node_call' = [NoNodeCall EXCEPT !.op = "retrieve_boc", !.id = boc_id,
                         !.ret = retrieve_boc(storage_node, boc_id),
                         !.pre = storage_node, !.post = storage_node]
    /\ UNCHANGED <<storage_node, locks, store_tasks, admitted>>
    /\ UNCHANGED <<tree_vars, root_vars, mgr_vars, conv_vars>>

\* A caller runs retrieve_proof(proof_id): the proof map is read under its lock.
RetrieveProof(proof_id) ==
    /\ storage_node.exists
    /\ locks.proofs = 0
    /\ node_call' = [NoNodeCall EXCEPT !.op = "retrieve_proof", !.id = proof_id,
                         !.ret = retrieve_proof(storage_node, proof_id),
                         !.pre = storage_node, !.post = storage_node]
    /\ UNCHANGED <<storage_node, locks, store_tasks, admitted>>
    /\ UNCHANGED <<tree_vars, root_vars, mgr_vars, conv_vars>>

\* A caller runs add_peer(peer_id).
AddPeer(peer_id) ==
    /\ storage_node.exists
    /\ storage_node' = add_peer(storage_node, peer_id)
    /\ node_call' = [NoNodeCall EXCEPT !.op = "add_peer", !.id = peer_id,
                         !.pre = storage_node,
                         !.post = add_peer(storage_node, peer_id)]
    /\ UNCHANGED <<locks, store_tasks, admitted>>
    /\ UNCHANGED <<tree_vars, root_vars, mgr_vars, conv_vars>>

\* A caller runs remove_peer(peer_id).
RemovePeer(peer_id) ==
    /\ storage_node.exists
    /\ storage_node' = remove_peer(storage_node, peer_id)
    /\ node_call' = [NoNodeCall EXCEPT !.op = "remove_peer", !.id = peer_id,
                         !.pre = storage_node,
                         !.post = remove_peer(storage_node, peer_id)]
    /\ UNCHANGED <<locks, store_tasks, admitted>>
    /\ UNCHANGED <<tree_vars, root_vars, mgr_vars, conv_vars>>

---------------------------------------------------------------------------
(* Actions on the response manager *)

Loops == 1 .. MaxLoops

ZeroTally == [total |-> 0, successful |-> 0, failed |-> 0]

\* A loop that does not exist.  Beside its position (pc), the hashes left to
\* verify and the failed attempts on the first of them, a loop carries what
\* it has done: whether its cycle has ended, the proofs it has attempted,
\* the attempts it has made on the last of them and the tallies it has
\* added in that cycle, the proof hashes stored when the cycle took the
\* object-map lock and whether the cells stored then were above the
\* ceiling, whether the cycle called verify_responses and the
\* hashes it has attempted, the delays it has completed since
\* the flag went down, and whether it has started an attempt or a cycle
\* after such a delay with the flag still down.
NoLoop == [pc |-> "none", keys |-> <<>>, attempts |-> 0,
           cycle |-> "none", attempted |-> 0, tries |-> 0, added |-> ZeroTally,
           present |-> {}, oversize |-> FALSE, batch |-> FALSE, seen |-> {},
           waited |-> 0, late |-> FALSE]

\* The tallies added so far, and those that took the manager from before
\* to after.
Tally(added, before, after) ==
    [total |-> added.total + after.metrics.total_verifications
                   - before.metrics.total_verifications,
     successful |-> added.successful + after.metrics.successful_verifications
                        - before.metrics.successful_verifications,
     failed |-> added.failed + after.metrics.failed_verifications
                    - before.metrics.failed_verifications]

\* The timer loop waits for, in milliseconds; 0 when it waits for none.
Delay(self, loop) ==
    IF loop.pc = "backoff" THEN backoff_delay(loop.attempts)
    ELSE IF loop.pc = "sleep" THEN self.response_interval
    ELSE 0

NoMgrCall == [op |-> "none", threshold |-> 0, interval |-> 0, ret |-> Ok(<<>>),
              created |-> FALSE, was_verifying |-> FALSE, now_verifying |-> FALSE,
              alive_before |-> 0, alive_after |-> 0]

Alive(ls) == {l \in Loops : ls[l].pc # "none"}

\* The orders in which a HashMap of these keys may yield them.
Orders(keys) ==
    {o \in [1 .. Cardinality(keys) -> keys] :
        \A i, j \in 1 .. Cardinality(keys) : i # j => o[i] # o[j]}

\* A caller runs ResponseManager::create(node_id, threshold, interval, _).
Create(node_id, response_threshold, response_interval, charge) ==
    LET r == create(node_id, response_threshold, response_interval, charge)
    IN  /\ mgr_call' = [NoMgrCall EXCEPT !.op = "create",
                            !.threshold = response_threshold,
                            !.interval = response_interval,
                            !.ret = r.ret, !.created = r.self.exists,
                            !.alive_before = Cardinality(Alive(loops)),
                            !.alive_after = Cardinality(Alive(loops))]
        /\ mgr' = IF r.ret.tag = "Ok" THEN r.self ELSE mgr
        /\ UNCHANGED loops
        /\ UNCHANGED <<tree_vars, root_vars, node_vars, conv_vars>>

\* A caller runs start_verification(); a spawned loop waits to be polled.
StartVerification ==
    LET r == start_verification(mgr)
        free == Loops \ Alive(loops)
        slot == CHOOSE l \in free : \A k \in free : l <= k
        spawned == IF r.spawn
                   THEN [l \in Loops |->
                            IF l = slot THEN [NoLoop EXCEPT !.pc = "spawned"]
                            ELSE [loops[l] EXCEPT !.waited = 0]]
                   ELSE loops
    IN  /\ mgr.exists
        /\ r.spawn => free # {}
        /\ mgr' = r.self
        /\ loops' = spawned
        /\ mgr_call' = [NoMgrCall EXCEPT !.op = "start_verification",
                            !.ret = r.ret,
                            !.was_verifying = is_currently_verifying(mgr),
                            !.now_verifying = is_currently_verifying(r.self),
                            !.alive_before = Cardinality(Alive(loops)),
                            !.alive_after = Cardinality(Alive(spawned))]
        /\ UNCHANGED <<tree_vars, root_vars, node_vars, conv_vars>>

\* A caller runs stop_verification().
StopVerification ==
    /\ mgr.exists
    /\ mgr' = stop_verification(mgr)
    /\ mgr_call' = [NoMgrCall EXCEPT !.op = "stop_verification",
                        !.was_verifying = is_currently_verifying(mgr),
                        !.now_verifying =
                            is_currently_verifying(stop_verification(mgr)),
                        !.alive_before = Cardinality(Alive(loops)),
                        !.alive_after = Cardinality(Alive(loops))]
    /\ UNCHANGED loops
    /\ UNCHANGED <<tree_vars, root_vars, node_vars, conv_vars>>

\* Mutant: a loop condition that never reads the flag.
WhileTrue(self, loop) ==
    [loop EXCEPT !.pc = "check", !.keys = <<>>, !.attempts = 0]

\* The loop condition `while manager.is_verifying.load()`: the loop goes on
\* to the next cycle, where it first waits for the object-map lock, or ends.
WhileVerifying(self, loop) ==
    IF self.is_verifying
    THEN [loop EXCEPT !.pc = "check", !.keys = <<>>, !.attempts = 0]
    ELSE NoLoop

\* The end of a cycle with result ret: the tally, then the sleep for the
\* rest of the interval when the cycle was shorter than it
\* (delay_with_cancellation), then the loop condition.
EndCycle(self, loop, ret, short) ==
    LET tallied == record_cycle(self, ret)
        done == [loop EXCEPT !.cycle = "ended", !.keys = <<>>, !.attempts = 0,
                    !.added = Tally(@, self, tallied)]
    IN  [self |-> tallied,
         loop |-> IF short
                  THEN IF delay_with_cancellation(tallied).tag = "Err"
                       THEN NoLoop
                       ELSE [done EXCEPT !.pc = "sleep"]
                  ELSE WhileVerifying(tallied, done)]

\* The spawned loop l is polled for the first time.
LoopPoll(l) ==
    /\ loops[l].pc = "spawned"
    /\ loops' = [loops EXCEPT ![l] = WhileVerifying(mgr, @)]
    /\ UNCHANGED <<mgr, mgr_call>>
    /\ UNCHANGED <<tree_vars, root_vars, node_vars, conv_vars>>

\* The counters of the metrics are u64 and `+= 1` wraps in the build without
\* overflow checks: the manager with its counters at the width of U64.
wrapping(self) ==
    [self EXCEPT !.metrics =
        [@ EXCEPT !.total_verifications = @ % (MaxU64 + 1),
                  !.successful_verifications = @ % (MaxU64 + 1),
                  !.failed_verifications = @ % (MaxU64 + 1)]]

\* The manager as a loop step leaves it: with counters that wrap at the
\* width of U64, or with counters that a bound on the cycles keeps from it.
Counted(self, wraps) == IF wraps THEN wrapping(self) ELSE self

\* Loop l gets the object-map lock and runs check_response_verification up
\* to the batch; a cycle without a batch ends here.
CheckCycle(l, wraps) ==
    /\ loops[l].pc = "check"
    /\ locks.bocs = 0
    /\ \E order \in Orders(DOMAIN storage_node.stored_bocs), short \in BOOLEAN :
          LET c == check_response_verification(mgr, storage_node, order)
              begun == [loops[l] EXCEPT !.cycle = "running", !.attempted = 0,
                           !.tries = 0, !.added = ZeroTally,
                           !.present = DOMAIN storage_node.stored_proofs,
                           !.oversize =
                               total_cells(storage_node.stored_bocs,
                                           DOMAIN storage_node.stored_bocs)
                                   > MAX_RESPONSE_SIZE,
                           !.batch = (c.responses # <<>>), !.seen = {}]
              e == EndCycle(mgr, begun, c.ret, short)
          IN  IF c.responses = <<>>
              THEN /\ mgr' = Counted(e.self, wraps)
                   /\ loops' = [loops EXCEPT ![l] = e.loop]
              ELSE /\ mgr' = mgr
                   /\ loops' = [loops EXCEPT ![l] =
                          [begun EXCEPT !.pc = "verify", !.keys = c.responses,
                                        !.attempts = 0]]
    /\ UNCHANGED mgr_call
    /\ UNCHANGED <<tree_vars, root_vars, node_vars, conv_vars>>

\* A cycle of loop l, in a run of at most MaxVerifications counted
\* verifications.
LoopCheck(l) ==
    /\ mgr.metrics.total_verifications < MaxVerifications
    /\ CheckCycle(l, FALSE)

\* Loop l gets the proof-map lock and makes one attempt on the first hash
\* left (verify_single_response), then takes the branch of verify_responses.
VerifyNext(l, wraps) ==
    /\ loops[l].pc = "verify"
    /\ locks.proofs = 0
    /\ \E short \in BOOLEAN :
          LET me == loops[l]
              v == verify_single_response(mgr, storage_node, Head(me.keys))
              tried == [me EXCEPT
                          !.attempted = IF me.attempts = 0 THEN @ + 1 ELSE @,
                          !.tries = IF me.attempts = 0 THEN 1 ELSE @ + 1,
                          !.seen = @ \cup {Head(me.keys)},
                          !.late = @ \/ (~mgr.is_verifying /\ me.waited >= 1)]
              attempts == me.attempts + 1
          IN  IF v.ret.tag = "Ok"
              THEN LET counted == [tried EXCEPT !.keys = Tail(@), !.attempts = 0,
                                      !.added = Tally(@, mgr, v.self)]
                   IN  IF Tail(me.keys) = <<>>
                       THEN LET e == EndCycle(v.self, counted, Ok(<<>>), short)
                            IN  /\ mgr' = Counted(e.self, wraps)
                                /\ loops' = [loops EXCEPT ![l] = e.loop]
                       ELSE /\ mgr' = Counted(v.self, wraps)
                            /\ loops' = [loops EXCEPT ![l] = counted]
              ELSE IF attempts = MAX_VERIFICATION_ATTEMPTS
                   THEN LET e == EndCycle(mgr, tried, v.ret, short)
                        IN  /\ mgr' = Counted(e.self, wraps)
                            /\ loops' = [loops EXCEPT ![l] = e.loop]
                   ELSE /\ mgr' = mgr
                        /\ loops' = [loops EXCEPT ![l] =
                               [tried EXCEPT !.pc = "backoff",
                                             !.attempts = attempts]]
    /\ UNCHANGED mgr_call
    /\ UNCHANGED <<tree_vars, root_vars, node_vars, conv_vars>>

\* An attempt of loop l in a run of bounded length.
LoopVerify(l) == VerifyNext(l, FALSE)

\* The backoff timer of loop l fires: the next attempt waits for the
\* proof-map lock.
LoopBackoffDone(l) ==
    /\ loops[l].pc = "backoff"
    /\ loops' = [loops EXCEPT ![l] =
           [@ EXCEPT !.pc = "verify",
                     !.waited = IF mgr.is_verifying THEN @ ELSE @ + 1]]
    /\ UNCHANGED <<mgr, mgr_call>>
    /\ UNCHANGED <<tree_vars, root_vars, node_vars, conv_vars>>

\* The end-of-cycle timer of loop l fires: delay_with_cancellation returns
\* Ok and the loop condition is evaluated.
LoopWake(l) ==
    /\ loops[l].pc = "sleep"
    /\ loops' = [loops EXCEPT ![l] =
           WhileVerifying(mgr,
               [@ EXCEPT !.waited = IF mgr.is_verifying THEN @ ELSE @ + 1])]
    /\ UNCHANGED <<mgr, mgr_call>>
    /\ UNCHANGED <<tree_vars, root_vars, node_vars, conv_vars>>

---------------------------------------------------------------------------
(* Inputs and actions of the state converter *)

\* [1u8; 32], the state root of the states the tests build.
OnesHash == [i \in 1 .. 32 |-> 1]

\* State roots: of the empty tree, of a tree with one leaf, of a tree with
\* two leaves, and one that is the root of no tree.
StateRoots ==
    {ZeroHash,
     TreeRoot({[key |-> ZeroHash, value |-> <<1>>]}),
     TreeRoot({[key |-> ZeroHash, value |-> <<1>>],
               [key |-> <<128>> \o Tail(ZeroHash), value |-> <<1>>]}),
     OnesHash}

PubkeyHashes == {<<1>>, <<2>>}

\* OverpassBitcoinState values with the given balances; nonce and
\* merkle_proof are read by none of the operations modelled.
OverpassStates(balances) ==
    [channel_id : ChannelIds, state_root : StateRoots,
     current_balance : balances, sequence : U64, pubkey_hash : PubkeyHashes]

\* The answers of the proof backend to a verification, and to a generation.
Verdicts == {"true", "false", "error"}
Generated == {"proof", "error"}

NoState == [channel_id |-> NoHash, state_root |-> NoHash, current_balance |-> 0,
            sequence |-> 0, pubkey_hash |-> <<>>]

\* A call on the converter: its arguments, the answer the backend gives
\* when asked, and, once the call is over (pc = "done"), its result.
NoConvCall == [op |-> "none", pc |-> "done", prev |-> NoState, new |-> NoState,
               proof |-> NoProof, verdict |-> "none",
               generated |-> "none", ret |-> Ok(FALSE),
               root_consulted |-> FALSE, backend_consulted |-> FALSE,
               pre |-> bsc_new]

\* The call verify_state_transition(prev_state, new_state, proof) runs.
VerifyStateTransition ==
    LET r == verify_state_transition(converter, conv_call.prev, conv_call.new,
                 conv_call.proof, conv_call.verdict, overflow_checks)
    IN  /\ conv_call.op = "verify_state_transition"
        /\ conv_call.pc = "called"
        /\ conv_call' = [conv_call EXCEPT !.pc = "done", !.ret = r.ret,
                             !.root_consulted = r.root_consulted,
                             !.backend_consulted = r.backend_consulted,
                             !.pre = converter]
        /\ UNCHANGED <<converter, conv_tasks>>
        /\ UNCHANGED <<tree_vars, root_vars, node_vars, mgr_vars>>

\* The call prepare_settlement(final_state) runs.
PrepareSettlement ==
    /\ conv_call.op = "prepare_settlement"
    /\ conv_call.pc = "called"
    /\ conv_call' = [conv_call EXCEPT !.pc = "done",
                         !.ret = prepare_settlement(converter, conv_call.new,
                                                    conv_call.generated),
                         !.pre = converter]
    /\ UNCHANGED <<converter, conv_tasks>>
    /\ UNCHANGED <<tree_vars, root_vars, node_vars, mgr_vars>>

ConvTasks == 1 .. MaxConverts

\* BitcoinLockState values: two amounts on each of two lock scripts.
LockStates ==
    [lock_amount : {1, 2},
     lock_script_hash : {ZeroHash, <<1>> \o Tail(ZeroHash)},
     lock_height : {0}, pubkey_hash : {<<1>>}, sequence : {0}]

NoLockState == [lock_amount |-> 0, lock_script_hash |-> NoHash, lock_height |-> 0,
                pubkey_hash |-> <<>>, sequence |-> 0]

\* A caller that has made no convert_lock_to_state call.  A call carries
\* its argument, the root of the tree as its own update left it, and, once
\* it is over (pc = "done"), its result.
IdleConvert == [pc |-> "idle", lock_state |-> NoLockState, own_root |-> NoHash,
                ret |-> Ok(NoState)]

\* Caller c enters convert_lock_to_state(lock_state) and runs its
\* write-lock block: update and get_proof under state_tree.write(), the
\* guard dropped at the end of the block.
ConvertUpdate(c, lock_state) ==
    LET updated == convert_lock_update(converter, lock_state)
    IN  /\ conv_tasks[c].pc \in {"idle", "done"}
        /\ converter' = updated
        /\ conv_tasks' = [conv_tasks EXCEPT ![c] =
               [IdleConvert EXCEPT !.pc = "read", !.lock_state = lock_state,
                                   !.own_root = wasm_root(updated.state_tree)]]
        /\ UNCHANGED conv_call
        /\ UNCHANGED <<tree_vars, root_vars, node_vars, mgr_vars>>

\* Caller c goes on after the write-lock block: generate_proof_js, then
\* the state built with the root read under state_tree.read(), and the
\* return.
ConvertRead(c, generated) ==
    /\ conv_tasks[c].pc = "read"
    /\ conv_tasks' = [conv_tasks EXCEPT ![c] =
           [@ EXCEPT !.pc = "done",
                     !.ret = convert_lock_read(converter, conv_tasks[c].lock_state,
                                               generated)]]
    /\ UNCHANGED <<converter, conv_call>>
    /\ UNCHANGED <<tree_vars, root_vars, node_vars, mgr_vars>>

---------------------------------------------------------------------------
(* Specifications *)

\* SparseMerkleTreeI::new
InitTree ==
    /\ smt = smt_new
    /\ smt_calls = <<>>

\* Any of the input trees.
InitTreeIn ==
    /\ smt \in TreeInputs
    /\ smt_calls = <<>>

\* The observers of the aggregator before any call.
InitRootObs ==
    /\ rc_call = NoCall
    /\ overflow_checks \in BOOLEAN
    /\ last_pass = -1
    /\ emitted = {}
    /\ gap_ok = TRUE

\* An aggregator nobody calls, beside the tree.
InitRootIdle ==
    /\ rc = rc_new(0)
    /\ rc_call = NoCall
    /\ overflow_checks = FALSE
    /\ last_pass = -1
    /\ emitted = {}
    /\ gap_ok = TRUE

\* RootContract::new(d), or RootContract::deserialize of a 26-byte header.
InitRoot ==
    /\ \/ \E d \in U64 : rc = rc_new(d)
       \/ \E e \in U64, d \in U64, l \in U64, vs \in {0, 1}, ss \in {0, 1} :
              rc = deserialize([roots |->
                       <<le_bytes(e, 8) \o le_bytes(d, 8) \o le_bytes(l, 8)
                             \o <<vs, ss>> >>]).val
    /\ InitRootObs

\* RootContract::new(d) with the two capability flags that gate results
\* given as configuration (section 9 of the specification).
InitRootCap ==
    /\ \E d \in U64, g \in BOOLEAN, t \in BOOLEAN :
           rc = [rc_new(d) EXCEPT !.verify_global_state = g,
                                  !.verify_transaction_state = t]
    /\ InitRootObs

NextTree == \E key \in Keys, value \in Values : Update(key, value)

NextRoot ==
    \/ \E a \in Addresses, r \in Roots : ProcessIntermediateRoot(a, r, <<>>)
    \/ \E now \in U64 : TrySubmitGlobalRoot(now)
    \/ \E tx \in Txs, p \in Proofs : VerifyTransaction(tx, p)
    \/ SerializeDeserialize

\* No storage node yet, and no call made on one.
InitNode ==
    /\ storage_node = NoNode
    /\ locks = FreeLocks
    /\ store_tasks = [t \in StoreTasks |-> IdleTask]
    /\ node_call = NoNodeCall
    /\ admitted = EmptyMap

NextNode ==
    \/ \E stake \in Stakes, peers \in SUBSET PeerIds, charge \in 0 .. MaxCharge :
           New(ZeroHash, stake, DefaultConfig, peers, charge)
    \/ \E t \in StoreTasks, boc \in Bocs, proof \in ZkProofs : StoreAdmit(t, boc, proof)
    \/ \E t \in StoreTasks : StoreInsertBoc(t)
    \/ \E t \in StoreTasks : StoreInsertProof(t)
    \/ \E t \in StoreTasks : StoreReturn(t)
    \/ \E id \in BocIds \cup {ZeroHash} : RetrieveBoc(id)
    \/ \E id \in BocIds \cup {ZeroHash} : RetrieveProof(id)
    \/ \E p \in PeerIds : AddPeer(p)
    \/ \E p \in PeerIds : RemovePeer(p)

\* No response manager.
InitManagerIdle ==
    /\ mgr = NoManager
    /\ loops = [l \in Loops |-> NoLoop]
    /\ mgr_call = NoMgrCall

\* A storage node as StorageNode::new returns it, with charge for one
\* store_update, or one whose public object map already holds objects for
\* which no proof is stored.
InitNodeIn ==
    /\ \E held \in SUBSET HeldBocs :
           storage_node =
               [sn_new(ZeroHash, MinStake, DefaultConfig, {}, 1).self
                   EXCEPT !.stored_bocs =
                       [h \in {hash_boc_internal(b) : b \in held} |->
                           CHOOSE b \in held : hash_boc_internal(b) = h]]
    /\ locks = FreeLocks
    /\ store_tasks = [t \in StoreTasks |-> IdleTask]
    /\ node_call = NoNodeCall
    /\ admitted = EmptyMap

\* A response manager as the last expression of ResponseManager::create
\* builds it, on the storage node of the model.
InitManager ==
    /\ \E threshold \in {MIN_RESPONSE_THRESHOLD, MIN_RESPONSE_THRESHOLD + 1} :
           mgr = rm_new(threshold, MIN_RESPONSE_INTERVAL)
    /\ loops = [l \in Loops |-> NoLoop]
    /\ mgr_call = NoMgrCall

\* The proof handed to store_update with boc beside a running manager.
BoundProof(boc) ==
    [proof_data |-> <<7>>, public_inputs |-> <<hash_boc_internal(boc)>>]

\* The configurations handed to ResponseManager::create.
Thresholds == 0 .. 5
Intervals == (MIN_RESPONSE_INTERVAL - 10) .. (MIN_RESPONSE_INTERVAL + 10)

NextCreate ==
    \E threshold \in Thresholds, interval \in Intervals, charge \in 0 .. MaxCharge :
        Create(ZeroHash, threshold, interval, charge)

NextManager ==
    \/ StartVerification
    \/ StopVerification
    \/ \E l \in Loops : LoopPoll(l)
    \/ \E l \in Loops : LoopCheck(l)
    \/ \E l \in Loops : LoopVerify(l)
    \/ \E l \in Loops : LoopBackoffDone(l)
    \/ \E l \in Loops : LoopWake(l)
    \/ \E boc \in Bocs : StoreAdmit(1, boc, BoundProof(boc))
    \/ StoreInsertBoc(1)
    \/ StoreInsertProof(1)
    \/ StoreReturn(1)

\* No call made on a converter.
InitConverterIdle ==
    /\ converter = bsc_new
    /\ conv_call = NoConvCall
    /\ conv_tasks = [c \in ConvTasks |-> IdleConvert]

\* An aggregator nobody calls, beside a converter built with or without
\* overflow checks.
InitRootBuild ==
    /\ rc = rc_new(0)
    /\ InitRootObs

\* A converter on a new state tree, and one call made on it.
InitConverter ==
    /\ converter = bsc_new
    /\ conv_tasks = [c \in ConvTasks |-> IdleConvert]
    /\ \/ \E prev_state \in OverpassStates({1}), new_state \in OverpassStates({1}),
             proof \in {NoProof, [proof_data |-> <<7>>, public_inputs |-> <<ZeroHash>>]},
             verdict \in Verdicts :
              conv_call = [NoConvCall EXCEPT !.op = "verify_state_transition",
                               !.pc = "called", !.prev = prev_state,
                               !.new = new_state, !.proof = proof,
                               !.verdict = verdict]
       \/ \E final_state \in OverpassStates({1, 2}), generated \in Generated :
              conv_call = [NoConvCall EXCEPT !.op = "prepare_settlement",
                               !.pc = "called", !.new = final_state,
                               !.generated = generated]

NextConverter ==
    \/ VerifyStateTransition
    \/ PrepareSettlement

\* Callers that share the state tree convert locks, each call in two steps.
NextConvert ==
    \/ \E c \in ConvTasks, lock_state \in LockStates : ConvertUpdate(c, lock_state)
    \/ \E c \in ConvTasks, generated \in Generated : ConvertRead(c, generated)

\* The tree as the program builds it: SparseMerkleTreeI::new, then updates.
InitSpecTree == InitTree /\ InitRootIdle /\ InitNode /\ InitManagerIdle /\ InitConverterIdle
SpecTree == InitSpecTree /\ [][NextTree]_vars

\* update as a function of any tree state: empty, populated or partial.
InitSpecTreeIn == InitTreeIn /\ InitRootIdle /\ InitNode /\ InitManagerIdle /\ InitConverterIdle
SpecTreeIn == InitSpecTreeIn /\ [][NextTree]_vars

\* The aggregator as the program builds it.
InitSpecRoot == InitTree /\ InitRoot /\ InitNode /\ InitManagerIdle /\ InitConverterIdle
SpecRoot == InitSpecRoot /\ [][NextRoot]_vars

\* The aggregator with its capability flags as configuration.
InitSpecRootCap == InitTree /\ InitRootCap /\ InitNode /\ InitManagerIdle /\ InitConverterIdle
SpecRootCap == InitSpecRootCap /\ [][NextRoot]_vars

\* The storage node: construction, concurrent store_update calls, retrievals
\* and peer changes.
InitSpecNode == InitTree /\ InitRootIdle /\ InitNode /\ InitManagerIdle /\ InitConverterIdle
SpecNode == InitSpecNode /\ [][NextNode]_vars

\* The response manager and its loops, beside a store_update, on a storage
\* node that is new or holds objects without proofs.
InitSpecManager == InitTree /\ InitRootIdle /\ InitNodeIn /\ InitManager /\ InitConverterIdle
SpecManager == InitSpecManager /\ [][NextManager]_vars

\* The manager started and never stopped, beside a store_update.  Its loop
\* runs for ever: the counters are kept at the width of U64, where they wrap
\* as they do in the build without overflow checks.
NextPickUp ==
    \/ StartVerification
    \/ \E l \in Loops : LoopPoll(l)
    \/ \E l \in Loops : CheckCycle(l, TRUE)
    \/ \E l \in Loops : VerifyNext(l, TRUE)
    \/ \E l \in Loops : LoopBackoffDone(l)
    \/ \E l \in Loops : LoopWake(l)
    \/ \E boc \in Bocs : StoreAdmit(1, boc, BoundProof(boc))
    \/ StoreInsertBoc(1)
    \/ StoreInsertProof(1)
    \/ StoreReturn(1)

\* The runtime polls a task that can run, a timer fires, and a lock that
\* stays free is granted: no step of the loop and no step of a store_update
\* under way waits for ever.  Whether store_update is called, and
\* which order the object map yields its hashes in, is under no fairness.
FairPickUp ==
    /\ WF_vars(\E l \in Loops : LoopPoll(l))
    /\ WF_vars(\E l \in Loops : CheckCycle(l, TRUE))
    /\ WF_vars(\E l \in Loops : VerifyNext(l, TRUE))
    /\ WF_vars(\E l \in Loops : LoopBackoffDone(l))
    /\ WF_vars(\E l \in Loops : LoopWake(l))
    /\ WF_vars(StoreInsertBoc(1))
    /\ WF_vars(StoreInsertProof(1))
    /\ WF_vars(StoreReturn(1))

\* Concurrent store_update calls, each waiting for the battery lock first,
\* retrievals, and the manager's loop running on the same node.
NextLocks ==
    \/ StartVerification
    \/ \E l \in Loops : LoopPoll(l)
    \/ \E l \in Loops : CheckCycle(l, TRUE)
    \/ \E l \in Loops : VerifyNext(l, TRUE)
    \/ \E l \in Loops : LoopBackoffDone(l)
    \/ \E l \in Loops : LoopWake(l)
    \/ \E t \in StoreTasks, boc \in Bocs : StoreCall(t, boc, BoundProof(boc))
    \/ \E t \in StoreTasks : StoreEnter(t)
    \/ \E t \in StoreTasks : StoreInsertBoc(t)
    \/ \E t \in StoreTasks : StoreInsertProof(t)
    \/ \E t \in StoreTasks : StoreReturn(t)
    \/ \E id \in BocIds : RetrieveBoc(id)
    \/ \E id \in BocIds : RetrieveProof(id)

\* The locks of the node are futures::lock::Mutex, which grants a free lock
\* to a task that asks for it and promises no order among the tasks that
\* wait: a step that waits for a lock is taken when the lock stays free, and
\* a step that waits for none is taken.
FairLocks ==
    /\ \A t \in StoreTasks : WF_vars(StoreEnter(t))
    /\ \A t \in StoreTasks : WF_vars(StoreInsertBoc(t))
    /\ \A t \in StoreTasks : WF_vars(StoreInsertProof(t))
    /\ \A t \in StoreTasks : WF_vars(StoreReturn(t))
    /\ WF_vars(\E l \in Loops : LoopPoll(l))
    /\ WF_vars(\E l \in Loops : CheckCycle(l, TRUE))
    /\ WF_vars(\E l \in Loops : VerifyNext(l, TRUE))
    /\ WF_vars(\E l \in Loops : LoopBackoffDone(l))
    /\ WF_vars(\E l \in Loops : LoopWake(l))

\* A manager of threshold 1 on a node that holds one object without a proof.
InitSpecLocks ==
    /\ InitTree /\ InitRootIdle /\ InitNodeIn /\ InitManager /\ InitConverterIdle
    /\ mgr.response_threshold = MIN_RESPONSE_THRESHOLD
    /\ DOMAIN storage_node.stored_bocs # {}
    /\ DOMAIN storage_node.stored_bocs \cap BocIds = {}
SpecLocks == InitSpecLocks /\ [][NextLocks]_vars /\ FairLocks

InitSpecPickUp == InitTree /\ InitRootIdle /\ InitNodeIn /\ InitManager /\ InitConverterIdle
SpecPickUp == InitSpecPickUp /\ [][NextPickUp]_vars /\ FairPickUp

\* The same run with a caller that may stop the verification at any time
\* and makes no start_verification call after a stop_verification.
NextStop ==
    \/ mgr_call.op # "stop_verification" /\ StartVerification
    \/ StopVerification
    \/ \E l \in Loops : LoopPoll(l)
    \/ \E l \in Loops : CheckCycle(l, TRUE)
    \/ \E l \in Loops : VerifyNext(l, TRUE)
    \/ \E l \in Loops : LoopBackoffDone(l)
    \/ \E l \in Loops : LoopWake(l)
    \/ \E boc \in Bocs : StoreAdmit(1, boc, BoundProof(boc))
    \/ StoreInsertBoc(1)
    \/ StoreInsertProof(1)
    \/ StoreReturn(1)

\* A manager of threshold 1 on a node that holds one object without a proof.
InitSpecStop ==
    /\ InitTree /\ InitRootIdle /\ InitNodeIn /\ InitManager /\ InitConverterIdle
    /\ mgr.response_threshold = MIN_RESPONSE_THRESHOLD
    /\ DOMAIN storage_node.stored_bocs # {}
    /\ DOMAIN storage_node.stored_bocs \cap BocIds = {}
SpecStop == InitSpecStop /\ [][NextStop]_vars /\ FairPickUp

\* ResponseManager::create on its own.
InitSpecCreate == InitTree /\ InitRootIdle /\ InitNode /\ InitManagerIdle /\ InitConverterIdle
SpecCreate == InitSpecCreate /\ [][NextCreate]_vars

\* The state converter on a new state tree.
InitSpecConverter == InitTree /\ InitRootBuild /\ InitNode /\ InitManagerIdle /\ InitConverter
SpecConverter == InitSpecConverter /\ [][NextConverter]_vars

\* Callers converting locks on one shared state tree.
InitSpecConvert == InitTree /\ InitRootIdle /\ InitNode /\ InitManagerIdle /\ InitConverterIdle
SpecConvert == InitSpecConvert /\ [][NextConvert]_vars

---------------------------------------------------------------------------
(* Claims about SparseMerkleTreeI *)

\* Whether a node on the key's path from the root, or the child the key's
\* bit selects, is missing from the node map.
PathBroken(tree, key) ==
    LET at[i \in 0 .. Height] ==
            IF i = 0 THEN tree.root_hash
            ELSE IF at[i - 1] \in DOMAIN tree.nodes
                 THEN IF get_bit(key, i - 1) THEN tree.nodes[at[i - 1]].right
                                             ELSE tree.nodes[at[i - 1]].left
                 ELSE NoHash
    IN  \E i \in 0 .. Height - 1 :
            at[i] \notin DOMAIN tree.nodes \/ at[i + 1] = NoHash

\* C1: update(key, value) on a consistent tree, the freshly constructed empty
\* tree included, succeeds and sets the root to the fold of the leaf hash with
\* the sibling hashes on the key's path (the root of the tree that holds the
\* old leaves and the new one).
C1_UpdateSucceeds ==
    \A i \in DOMAIN smt_calls :
        \A S \in {{}, OneLeaf, FullLeaves} :
            smt_calls[i].pre = ConsistentTree(S) =>
                /\ smt_calls[i].ret = "Ok"
                /\ root(smt_calls[i].post)
                       = TreeRoot(Upsert(S, smt_calls[i].key, smt_calls[i].value))

\* C2: update fails with NotFound exactly when a node on the key's path from
\* the current root, or the child selected by the key's bit, is missing from
\* the node map; a failed update leaves the root and the node map as they were.
C2_NotFoundIffMissing ==
    \A i \in DOMAIN smt_calls :
        /\ smt_calls[i].ret \in {"Ok", "NotFound"}
        /\ smt_calls[i].ret = "NotFound"
               <=> PathBroken(smt_calls[i].pre, smt_calls[i].key)
        /\ smt_calls[i].ret = "NotFound" => smt_calls[i].post = smt_calls[i].pre

\* C2, witness: on a populated tree an update succeeded, and the next one
\* failed on a node that the node map does not hold.
C2_Witness ==
    /\ Len(smt_calls) = 2
    /\ smt_calls[1].ret = "Ok"
    /\ smt_calls[2].ret = "NotFound"
    /\ DOMAIN smt_calls[2].pre.nodes # {}

\* C3: update(k, v) applied twice in a row succeeds both times and the second
\* application leaves the root as the first one set it.
C3_Idempotent ==
    (/\ Len(smt_calls) = 2
     /\ smt_calls[1].key = smt_calls[2].key
     /\ smt_calls[1].value = smt_calls[2].value)
        => /\ smt_calls[1].ret = "Ok"
           /\ smt_calls[2].ret = "Ok"
           /\ root(smt_calls[2].post) = root(smt_calls[1].post)

\* The hash stored for the subtree under a bit prefix of the leaves S: the
\* zero sentinel when the subtree is empty.
StoredHash(S, prefix) ==
    IF SubtreeHash(S, prefix) = NoHash THEN ZeroHash ELSE SubtreeHash(S, prefix)

\* The path of key in the tree of the leaves S as the claim describes it: at
\* level i the hash of the sibling of the node on the key's path, with the
\* side that bit i of the key selects.
SiblingPath(S, key) ==
    [i \in 1 .. Height |->
        [hash |-> StoredHash(S, Append(SubSeq(BitPath(key), 1, i - 1),
                                       1 - BitPath(key)[i])),
         is_left |-> get_bit(key, i - 1)]]

---------------------------------------------------------------------------
(* Claims about RootContract *)

\* now - last on u64 without overflow checks, as the time gate reads it
Elapsed(now, last) == (now - last + MaxU64 + 1) % (MaxU64 + 1)

IsTrySubmit == rc_call.op = "try_submit_global_root"

\* The last call was a try_submit_global_root that the gate lets through
\* and that returned.
PassedGate ==
    /\ IsTrySubmit
    /\ rc_call.ret.tag # "Panic"
    /\ Elapsed(rc_call.now, rc_call.pre.last_submission) >= rc_call.pre.epoch_duration

\* C4: a call with now - last_submission < epoch_duration returns nothing and
\* leaves epoch and last_submission unchanged; a call that passes the gate
\* returns a value exactly when the global-state flag is enabled, and a later
\* call less than epoch_duration after it returns nothing.
C4_EpochGating ==
    IsTrySubmit =>
        /\ Elapsed(rc_call.now, rc_call.pre.last_submission) < rc_call.pre.epoch_duration
               => /\ rc_call.ret.tag # "Some"
                  /\ rc.epoch = rc_call.pre.epoch
                  /\ rc.last_submission = rc_call.pre.last_submission
        /\ PassedGate => (rc_call.ret.tag = "Some" <=> rc_call.pre.verify_global_state)
        /\ (/\ rc_call.prev_pass # -1
            /\ Elapsed(rc_call.now, rc_call.prev_pass) < rc_call.pre.epoch_duration)
               => rc_call.ret.tag # "Some"

\* C4, witness: with the flag enabled a root was returned, and a call less
\* than epoch_duration later returned nothing.
C4_Witness ==
    /\ IsTrySubmit
    /\ rc_call.pre.verify_global_state
    /\ rc_call.prev_pass \in emitted
    /\ rc_call.now # rc_call.prev_pass
    /\ Elapsed(rc_call.now, rc_call.prev_pass) < rc_call.pre.epoch_duration
    /\ rc_call.ret = RetNone
    /\ rc = rc_call.pre

\* C5: a call that passes the time gate increments epoch by 1 (on u64) and
\* sets last_submission to now whether the global-state flag is enabled or
\* not; it returns no root when the flag is disabled, and the current global
\* root with an empty certificate when it is enabled.
C5_BookkeepingDecoupled ==
    PassedGate =>
        /\ rc.epoch = (rc_call.pre.epoch + 1) % (MaxU64 + 1)
        /\ rc.last_submission = rc_call.now
        /\ rc_call.ret = IF rc_call.pre.verify_global_state
                         THEN RetSome(get_global_root_hash(rc_call.pre.global_tree))
                         ELSE RetNone

\* C5, witness: with the flag disabled a call passed the gate; the epoch
\* advanced and no root came back.
C5_Witness ==
    /\ PassedGate
    /\ ~rc_call.pre.verify_global_state
    /\ rc_call.pre.intermediate_roots # EmptyMap
    /\ rc.epoch = rc_call.pre.epoch + 1
    /\ rc_call.ret = RetNone

C7_EpochCountsEmissions ==
    rc_call.op # "none" =>
        /\ rc.epoch >= rc_call.pre.epoch
        /\ rc.epoch # rc_call.pre.epoch
               <=> (IsTrySubmit /\ rc_call.ret.tag = "Some")
        /\ rc.epoch # rc_call.pre.epoch => rc.epoch = rc_call.pre.epoch + 1

\* C7 as amended: epoch changes only in a try_submit_global_root call that
\* passes the time gate and returns, by exactly 1 on u64 whether or not a
\* root is returned; it decreases only by wrapping from the largest u64.
C7_EpochCountsGatePasses ==
    rc_call.op # "none" =>
        /\ rc.epoch # rc_call.pre.epoch <=> PassedGate
        /\ PassedGate => rc.epoch = (rc_call.pre.epoch + 1) % (MaxU64 + 1)
        /\ rc.epoch < rc_call.pre.epoch
               => (rc_call.pre.epoch = MaxU64 /\ ~overflow_checks)

\* C7, witness: a call passed the gate and returned no root, and the epoch
\* is one more than before.
C7_Witness ==
    /\ PassedGate
    /\ rc_call.ret = RetNone
    /\ rc.epoch = rc_call.pre.epoch + 1

\* The leaves of the global tree that intermediate_roots describes.
LeavesOf(roots) == {[key |-> a, value |-> roots[a]] : a \in DOMAIN roots}

\* C8: process_intermediate_root(address, root, proof) sets
\* intermediate_roots[address] = root and folds the pair into the global
\* tree; done again with the same pair it changes nothing; it never changes
\* epoch or last_submission.
C8_ProcessIdempotent ==
    rc_call.op = "process_intermediate_root" =>
        /\ rc_call.ret.tag = "Ok"
        /\ rc.intermediate_roots
               = MapPut(rc_call.pre.intermediate_roots, rc_call.addr, rc_call.root)
        /\ get_global_root_hash(rc.global_tree)
               = TreeRoot(Upsert(LeavesOf(rc_call.pre.global_tree.leaves),
                                 rc_call.addr, rc_call.root))
        /\ process_intermediate_root(rc, rc_call.addr, rc_call.root, rc_call.proof).self
               = rc
        /\ rc.epoch = rc_call.pre.epoch
        /\ rc.last_submission = rc_call.pre.last_submission

\* C8, witness: a pair was processed a second time, over the entry it had
\* set, after a time-gate pass had set epoch and last_submission.
C8_Witness ==
    /\ rc_call.op = "process_intermediate_root"
    /\ rc_call.addr \in DOMAIN rc_call.pre.intermediate_roots
    /\ rc_call.pre.intermediate_roots[rc_call.addr] = rc_call.root
    /\ DOMAIN rc.intermediate_roots = Addresses
    /\ rc = rc_call.pre
    /\ rc.epoch > 0
    /\ rc.last_submission > 0

\* C9: verify_transaction returns false for every tx and proof when the
\* transaction-verification flag is disabled and true for every tx and proof
\* when it is enabled; it does not change the aggregator, which changes only
\* in process_intermediate_root and try_submit_global_root.
C9_VerifyTransactionGate ==
    /\ \A tx \in Txs, p \in Proofs :
           verify_transaction(rc, tx, p)
               = [tag |-> "Ok", val |-> rc.verify_transaction_state]
    /\ rc_call.op = "verify_transaction"
           => rc_call.ret = [tag |-> "Ok", val |-> rc_call.pre.verify_transaction_state]
    /\ rc_call.op \notin {"none", "process_intermediate_root", "try_submit_global_root"}
           => rc = rc_call.pre

\* C9, witness: with the flag enabled a transaction was approved, on an
\* aggregator that earlier calls had changed.
C9_Witness ==
    /\ rc_call.op = "verify_transaction"
    /\ rc_call.tx = <<2>>
    /\ rc_call.proof # <<>>
    /\ rc_call.ret.val = TRUE
    /\ rc.epoch > 0
    /\ rc.intermediate_roots # EmptyMap

\* C10: deserializing a serialized aggregator yields the same epoch,
\* epoch_duration, last_submission, header flags, intermediate roots and
\* global root.
C10_RoundTrip ==
    rc_call.op = "serialize_deserialize" =>
        /\ rc_call.ret.tag = "Ok"
        /\ rc_call.ret.val.epoch = rc.epoch
        /\ rc_call.ret.val.epoch_duration = rc.epoch_duration
        /\ rc_call.ret.val.last_submission = rc.last_submission
        /\ rc_call.ret.val.verify_settlement_state = rc.verify_settlement_state
        /\ rc_call.ret.val.submit_settlement = rc.submit_settlement
        /\ rc_call.ret.val.intermediate_roots = rc.intermediate_roots
        /\ get_global_root_hash(rc_call.ret.val.global_tree)
               = get_global_root_hash(rc.global_tree)

\* C32: in every state reached from RootContract::new or
\* RootContract::deserialize through process_intermediate_root,
\* try_submit_global_root and verify_transaction, the flags
\* verify_global_state and verify_transaction_state are false: no call of
\* try_submit_global_root returns a root, each one that returns returns
\* None, and every verify_transaction returns Ok(false).
C32_FlagsNeverSet ==
    /\ ~rc.verify_global_state
    /\ ~rc.verify_transaction_state
    /\ IsTrySubmit =>
           /\ rc_call.ret.tag \in {"None", "Panic"}
           /\ rc_call.ret.tag = "Panic" => rc_call.gate = "panic"
    /\ rc_call.op = "verify_transaction" =>
           /\ rc_call.ret.tag = "Ok"
           /\ rc_call.ret.val = FALSE

\* C32, witness: with an intermediate root processed, a
\* try_submit_global_root passed the time gate, opened an epoch and returned
\* None.
C32_Witness ==
    /\ IsTrySubmit
    /\ rc_call.gate = "open"
    /\ rc_call.ret.tag = "None"
    /\ rc.epoch = rc_call.pre.epoch + 1
    /\ DOMAIN rc.intermediate_roots # {}

\* C33: a call try_submit_global_root(now) with now below last_submission
\* returns nothing and leaves epoch and last_submission unchanged, and
\* last_submission never decreases.
C33_ClockBackwards ==
    /\ (IsTrySubmit /\ rc_call.now < rc_call.pre.last_submission) =>
           /\ rc_call.ret.tag # "Some"
           /\ rc.epoch = rc_call.pre.epoch
           /\ rc.last_submission = rc_call.pre.last_submission
    /\ rc_call.op # "none" => rc.last_submission >= rc_call.pre.last_submission

---------------------------------------------------------------------------
(* Claims on the storage node *)

\* C11: StorageNode::new succeeds if and only if stake >= 1000: below 1000 it
\* returns an error and no node exists; from 1000 on it returns a node whose
\* stake is the given value and whose object and proof maps are empty.
C11_StakeGate ==
    node_call.op = "new" =>
        IF node_call.stake < 1000
        THEN /\ node_call.ret.tag = "Err"
             /\ ~node_call.post.exists
             /\ ~storage_node.exists
        ELSE /\ node_call.ret.tag = "Ok"
             /\ node_call.post.exists
             /\ node_call.post.stake = node_call.stake
             /\ node_call.post.stored_bocs = EmptyMap
             /\ node_call.post.stored_proofs = EmptyMap
             /\ storage_node.exists
             /\ storage_node.stake = node_call.stake

\* C11, witness: a node was constructed with stake exactly 1000.
C11_Witness ==
    /\ node_call.op = "new"
    /\ node_call.stake = 1000
    /\ node_call.ret.tag = "Ok"
    /\ storage_node.exists

\* Whether the proof's public inputs are exactly the object's content hash.
Bound(proof, boc) == proof.public_inputs = <<hash_boc_internal(boc)>>

SameMaps(a, b) ==
    /\ a.stored_bocs = b.stored_bocs
    /\ a.stored_proofs = b.stored_proofs

\* C12 as stated: store_update fails with InvalidProof whenever the public
\* inputs are not exactly [hash(object)]; the maps are then what they were
\* before the call and the debit made at the start is not refunded.
C12_AdmissionBinding ==
    (node_call.op = "store_update" /\ ~Bound(node_call.proof, node_call.boc)) =>
        /\ node_call.ret = Err("InvalidProof")
        /\ SameMaps(node_call.post, node_call.pre)
        /\ node_call.post.battery_system.charge
               = node_call.pre.battery_system.charge - 1

\* C12 as amended: with public inputs other than [hash(object)] store_update
\* fails and leaves the maps as they were; when the battery covers the
\* processing unit the error is InvalidProof and the unit stays debited,
\* otherwise the error is the battery error and nothing is debited.
C12_AdmissionBindingAfterDebit ==
    (node_call.op = "store_update" /\ ~Bound(node_call.proof, node_call.boc)) =>
        /\ SameMaps(node_call.post, node_call.pre)
        /\ IF node_call.pre.battery_system.charge >= 1
           THEN /\ node_call.ret = Err("InvalidProof")
                /\ node_call.post.battery_system.charge
                       = node_call.pre.battery_system.charge - 1
           ELSE /\ node_call.ret = Err("BatteryError")
                /\ node_call.post.battery_system.charge
                       = node_call.pre.battery_system.charge

\* C12, witness: a proof bound to another object was rejected by a node that
\* already stores a pair, after the debit.
C12_Witness ==
    /\ node_call.op = "store_update"
    /\ Len(node_call.proof.public_inputs) = 1
    /\ ~Bound(node_call.proof, node_call.boc)
    /\ node_call.ret = Err("InvalidProof")
    /\ node_call.pre.stored_proofs # EmptyMap
    /\ node_call.post.battery_system.charge < node_call.pre.battery_system.charge

\* C13: when the battery cannot cover one processing unit, store_update
\* fails with the battery error before any proof check (also for a proof
\* the binding check would reject), and neither map is modified.
C13_BatteryFirst ==
    (node_call.op = "store_update" /\ node_call.pre.battery_system.charge < 1) =>
        /\ node_call.ret = Err("BatteryError")
        /\ SameMaps(node_call.post, node_call.pre)

\* C13, witness: an unbound proof met an exhausted battery on a node that
\* stores a pair.
C13_Witness ==
    /\ node_call.op = "store_update"
    /\ node_call.pre.battery_system.charge = 0
    /\ ~Bound(node_call.proof, node_call.boc)
    /\ node_call.ret = Err("BatteryError")
    /\ node_call.pre.stored_bocs # EmptyMap

\* C14: pair invariant under every interleaving.  Whoever holds the
\* object-map lock sees the same keys in both maps; every stored proof has
\* its object, under the object's content hash, and its single public input
\* is that hash.
C14_PairInvariant ==
    storage_node.exists =>
        /\ locks.bocs = 0 =>
               DOMAIN storage_node.stored_bocs = DOMAIN storage_node.stored_proofs
        /\ \A h \in DOMAIN storage_node.stored_proofs :
               /\ h \in DOMAIN storage_node.stored_bocs
               /\ hash_boc_internal(storage_node.stored_bocs[h]) = h
               /\ storage_node.stored_proofs[h].public_inputs = <<h>>

\* C14, witness: a store_update has inserted its object and not yet its
\* proof, beside a pair stored earlier.
C14_Witness ==
    /\ \E t \in StoreTasks : store_tasks[t].pc = "lock_proofs"
    /\ storage_node.stored_proofs # EmptyMap
    /\ DOMAIN storage_node.stored_bocs # DOMAIN storage_node.stored_proofs

\* C15 as stated: once store_update(object, proof) has succeeded, every later
\* retrieve_boc(hash) returns that object and every later retrieve_proof(hash)
\* returns that proof; retrieve_boc of a hash never stored returns NotFound.
C15_RetrieveStored ==
    storage_node.exists =>
        /\ \A h \in DOMAIN admitted :
               /\ locks.bocs = 0 => retrieve_boc(storage_node, h) = Ok(BocOf(h))
               /\ locks.proofs = 0 =>
                      \A i \in 1 .. Len(admitted[h]) :
                          retrieve_proof(storage_node, h) = Ok(admitted[h][i])
        /\ \A h \in (BocIds \cup {ZeroHash}) \ DOMAIN admitted :
               locks.bocs = 0 => retrieve_boc(storage_node, h) = Err("NotFound")

\* C15 as amended: retrieve_proof returns the proof of the latest successful
\* store_update of that object.
C15_RetrieveLatest ==
    storage_node.exists =>
        /\ \A h \in DOMAIN admitted :
               /\ locks.bocs = 0 => retrieve_boc(storage_node, h) = Ok(BocOf(h))
               /\ locks.proofs = 0 =>
                      retrieve_proof(storage_node, h)
                          = Ok(admitted[h][Len(admitted[h])])
        /\ \A h \in (BocIds \cup {ZeroHash}) \ DOMAIN admitted :
               locks.bocs = 0 => retrieve_boc(storage_node, h) = Err("NotFound")

\* C15, witness: a proof was retrieved after its object had been stored
\* twice, and a peer had been removed in between or before.
C15_Witness ==
    /\ node_call.op = "retrieve_proof"
    /\ node_call.id \in DOMAIN admitted
    /\ Len(admitted[node_call.id]) = 2
    /\ node_call.ret = Ok(admitted[node_call.id][2])
    /\ storage_node.peers = {}

---------------------------------------------------------------------------
(* Claims on the response manager *)

IsStart == mgr_call.op = "start_verification"
IsStop == mgr_call.op = "stop_verification"

\* C16: is_verifying is false on a new manager, true after a successful
\* start_verification and false after stop_verification; start_verification
\* while it is true returns VerificationInProgress and spawns no loop; with
\* it false (on a new manager, or after a stop) start_verification succeeds
\* and spawns one loop.
C16_GuardAndLifecycle ==
    /\ mgr_call.op = "none" => ~is_currently_verifying(mgr)
    /\ (IsStart /\ mgr_call.was_verifying) =>
           /\ mgr_call.ret = Err("VerificationInProgress")
           /\ mgr_call.now_verifying
           /\ mgr_call.alive_after = mgr_call.alive_before
    /\ (IsStart /\ ~mgr_call.was_verifying) =>
           /\ mgr_call.ret = Ok(<<>>)
           /\ mgr_call.now_verifying
           /\ mgr_call.alive_after = mgr_call.alive_before + 1
    /\ IsStop => ~mgr_call.now_verifying
    /\ (IsStart \/ IsStop) => is_currently_verifying(mgr) = mgr_call.now_verifying

\* C16, witness: start_verification succeeded again after cycles had run and
\* a stop had ended the loop.
C16_Witness ==
    /\ IsStart
    /\ mgr_call.ret = Ok(<<>>)
    /\ mgr_call.alive_before = 0
    /\ mgr.metrics.total_verifications > 0

\* C17: over every interleaving of start_verification and stop_verification
\* at most one verification loop is alive at any time.
C17_SingleInstance == Cardinality(Alive(loops)) <= 1

C19_OneTallyPerProof ==
    \A l \in Loops :
        loops[l].cycle = "ended" =>
            /\ loops[l].added.total = loops[l].attempted
            /\ loops[l].added.successful + loops[l].added.failed
                   = loops[l].attempted

\* C20: create with response_threshold < 1 fails with InvalidThreshold and
\* create with response_interval < 1000 fails with InvalidInterval, the
\* threshold being checked first; no manager and no loop exist afterwards.
C20_CreateValidated ==
    mgr_call.op = "create" =>
        /\ mgr_call.threshold < 1 =>
               /\ mgr_call.ret = Err("InvalidThreshold")
               /\ ~mgr_call.created
        /\ (mgr_call.threshold >= 1 /\ mgr_call.interval < 1000) =>
               /\ mgr_call.ret = Err("InvalidInterval")
               /\ ~mgr_call.created
        /\ mgr_call.ret.tag = "Err" =>
               /\ ~mgr.exists
               /\ Alive(loops) = {}

\* C20, witness: create was refused for its threshold with an interval that
\* is too short as well.
C20_Witness ==
    /\ mgr_call.op = "create"
    /\ mgr_call.threshold = 0
    /\ mgr_call.interval = 999
    /\ mgr_call.ret = Err("InvalidThreshold")
    /\ ~mgr.exists

\* C21: create with a 32-byte node id, response_threshold >= 1 and
\* response_interval >= 1000 returns Ok with a manager whose is_verifying
\* is false and whose metrics are zero and carry the configured threshold
\* and interval.
C21_CreateSucceeds ==
    (/\ mgr_call.op = "create"
     /\ mgr_call.threshold >= MIN_RESPONSE_THRESHOLD
     /\ mgr_call.interval >= MIN_RESPONSE_INTERVAL) =>
        /\ mgr_call.ret = Ok(<<>>)
        /\ mgr_call.created
        /\ mgr = rm_new(mgr_call.threshold, mgr_call.interval)

\* C22: the counters of the verification metrics never decrease: across
\* every step of the verification loops, and of the calls beside them,
\* total_verifications, successful_verifications and failed_verifications
\* are at least what they were.
C22_MetricsMonotone ==
    [][/\ mgr'.metrics.total_verifications >= mgr.metrics.total_verifications
       /\ mgr'.metrics.successful_verifications
              >= mgr.metrics.successful_verifications
       /\ mgr'.metrics.failed_verifications
              >= mgr.metrics.failed_verifications]_vars

\* C22, witness: cycles have counted successes and failures, the last of
\* them a failure after a proof of the same cycle had verified.
C22_Witness ==
    /\ mgr.metrics.successful_verifications >= 1
    /\ mgr.metrics.failed_verifications >= 1
    /\ \E l \in Loops :
           /\ loops[l].cycle = "ended"
           /\ loops[l].added.successful >= 1
           /\ loops[l].added.failed >= 1

\* Whether the cycle of loop ended on a proof that had used up its attempts.
Exhausted(loop) ==
    loop.cycle = "ended" /\ loop.attempted >= 1 /\ loop.added.failed >= 1

\* The attempts of a loop are bounded, and a cycle that ends on an
\* exhausted proof has made three attempts on it and counted one failure.
RetryBounded ==
    \A l \in Loops :
        /\ loops[l].tries <= MAX_VERIFICATION_ATTEMPTS
        /\ loops[l].attempts < MAX_VERIFICATION_ATTEMPTS
        /\ loops[l].pc = "backoff" =>
               loops[l].tries = loops[l].attempts
        /\ Exhausted(loops[l]) =>
               /\ loops[l].tries = MAX_VERIFICATION_ATTEMPTS
               /\ loops[l].added.failed = 1
               /\ loops[l].pc \in {"sleep", "check"}

\* A loop ends only with the flag down.
EndsOnlyStopped ==
    \A l \in Loops :
        (loops[l].pc # "none" /\ loops'[l].pc = "none") => ~mgr.is_verifying

\* C26: within one cycle a proof is given at most 3 verification attempts;
\* after the 3rd failed attempt the error ends the cycle, exactly one failed
\* verification is counted for that proof (not one per attempt), and the
\* loop stays alive for its next cycle: it ends only when the flag is down.
C26_BoundedRetry == []RetryBounded /\ [][EndsOnlyStopped]_vars

\* C26, witness: a cycle verified one proof, made three failed attempts on
\* the next and counted one failure; its loop waits for the next cycle with
\* the flag up.
C26_Witness ==
    \E l \in Loops :
        /\ Exhausted(loops[l])
        /\ loops[l].attempted = 2
        /\ loops[l].tries = MAX_VERIFICATION_ATTEMPTS
        /\ loops[l].added.failed = 1
        /\ loops[l].pc = "check"
        /\ mgr.is_verifying

SizeAborts ==
    \A l \in Loops :
        (loops[l].cycle # "none" /\ loops[l].oversize) =>
            /\ loops[l].cycle = "ended"
            /\ ~loops[l].batch
            /\ loops[l].seen = {}
            /\ loops[l].added = [total |-> 1, successful |-> 0, failed |-> 1]
            /\ loops[l].pc \in {"sleep", "check"}

\* No step removes a stored object or a stored proof.
NothingEvicted ==
    /\ DOMAIN storage_node.stored_bocs \subseteq DOMAIN storage_node'.stored_bocs
    /\ DOMAIN storage_node.stored_proofs \subseteq DOMAIN storage_node'.stored_proofs

StoredMidCycle(h) ==
    /\ store_tasks[1].pc = "return"
    /\ hash_boc_internal(store_tasks[1].boc) = h
    /\ \E l \in Loops : loops[l].cycle = "running"

\* The flag is up, the stored objects are as many as the threshold and
\* their cells are within the ceiling.
BatchDue ==
    /\ mgr.is_verifying
    /\ Cardinality(DOMAIN storage_node.stored_bocs) >= mgr.response_threshold
    /\ total_cells(storage_node.stored_bocs, DOMAIN storage_node.stored_bocs)
           <= MAX_RESPONSE_SIZE

\* A cycle that began with the proof of h stored has attempted h.
AttemptedLater(h) ==
    \E l \in Loops : h \in loops[l].present /\ h \in loops[l].seen

C34_TotalIsSum ==
    mgr.exists =>
        mgr.metrics.total_verifications
            = mgr.metrics.successful_verifications
                  + mgr.metrics.failed_verifications

\* C34, witness: proofs were verified and a cycle was counted as failed.
C34_Witness ==
    /\ mgr.exists
    /\ mgr.metrics.successful_verifications >= 1
    /\ mgr.metrics.failed_verifications >= 1
    /\ \E l \in Loops : loops[l].added.successful >= 1

\* The lock a store_update task waits for, "none" when it waits for none.
WaitsFor(t) ==
    IF store_tasks[t].pc = "lock_battery" THEN "battery"
    ELSE IF store_tasks[t].pc = "lock_bocs" THEN "bocs"
    ELSE IF store_tasks[t].pc = "lock_proofs" THEN "proofs"
    ELSE "none"

\* Task t is inside store_update and waits for a lock that another task holds.
BlockedTask(t) == WaitsFor(t) # "none" /\ locks[WaitsFor(t)] \notin {0, t}

\* Loop l waits for a lock that a task holds.
BlockedLoop(l) ==
    \/ loops[l].pc = "check" /\ locks.bocs # 0
    \/ loops[l].pc = "verify" /\ locks.proofs # 0

\* Some task or loop that is in a call can take a step, and every lock
\* that is held is held by a task that is in store_update and not blocked.
NoDeadlock ==
    /\ LET tasks == {t \in StoreTasks : store_tasks[t].pc # "idle"}
           cycles == {l \in Loops : loops[l].pc \in {"check", "verify"}}
       IN  tasks \cup cycles # {} =>
               \/ \E t \in tasks : ~BlockedTask(t)
               \/ \E l \in cycles : ~BlockedLoop(l)
    /\ \A k \in DOMAIN locks :
           locks[k] # 0 =>
               /\ store_tasks[locks[k]].pc \in {"lock_bocs", "lock_proofs", "return"}
               /\ ~BlockedTask(locks[k])

---------------------------------------------------------------------------
(* Claims on the state converter *)

IsVerify == conv_call.op = "verify_state_transition" /\ conv_call.pc = "done"

\* C23: verify_state_transition(prev, new, proof) returns false whenever
\* new.sequence is not prev.sequence + 1, or the channel ids differ, or the
\* pubkey hashes differ, for every proof and every answer of the proof
\* backend; in those cases neither the root-transition check nor the proof
\* backend is consulted.
C23_SequenceInvariant ==
    (/\ IsVerify
     /\ \/ conv_call.new.sequence # conv_call.prev.sequence + 1
        \/ conv_call.new.channel_id # conv_call.prev.channel_id
        \/ conv_call.new.pubkey_hash # conv_call.prev.pubkey_hash) =>
        /\ conv_call.ret.tag = "Ok"
        /\ conv_call.ret.val = FALSE
        /\ ~conv_call.root_consulted
        /\ ~conv_call.backend_consulted

\* C24: whenever the tree's verify_root_transition(prev.state_root,
\* new.state_root) is false, verify_state_transition never returns true and
\* a call that returns returns false, also when the state constraints hold
\* and the proof backend accepts; the verdict of the backend is consulted
\* and returned only when the constraint check and the root-transition
\* check have both passed.
C24_RootTransitionGate ==
    IsVerify =>
        LET root_ok == wasm_verify_root_transition(conv_call.pre.state_tree,
                           conv_call.prev.state_root, conv_call.new.state_root)
            constraints == verify_state_constraints(conv_call.prev, conv_call.new,
                                                    overflow_checks)
            accepted == conv_call.ret.tag = "Ok" /\ conv_call.ret.val
        IN  /\ ~root_ok =>
                   /\ ~accepted
                   /\ ~conv_call.backend_consulted
                   /\ conv_call.ret.tag # "Panic" =>
                          conv_call.ret.tag = "Ok" /\ ~conv_call.ret.val
            /\ (accepted \/ conv_call.backend_consulted) =>
                   /\ constraints.tag = "Ok" /\ constraints.val
                   /\ root_ok
                   /\ conv_call.root_consulted
            /\ conv_call.backend_consulted =>
                   /\ conv_call.verdict # "error" =>
                          conv_call.ret.tag = "Ok"
                          /\ conv_call.ret.val = (conv_call.verdict = "true")
                   /\ conv_call.verdict = "error" =>
                          conv_call.ret.tag = "Err"
                          /\ conv_call.ret.err = "VerificationError"

\* C24, witness: a transition between the roots of two trees that are more
\* than one leaf update apart was rejected although its constraints hold and
\* the backend accepts.
C24_Witness ==
    /\ IsVerify
    /\ conv_call.new.sequence = conv_call.prev.sequence + 1
    /\ conv_call.new.channel_id = conv_call.prev.channel_id
    /\ conv_call.new.pubkey_hash = conv_call.prev.pubkey_hash
    /\ conv_call.prev.state_root = ZeroHash
    /\ conv_call.new.state_root \in StateRoots \ {ZeroHash, OnesHash}
    /\ conv_call.root_consulted
    /\ ~wasm_verify_root_transition(conv_call.pre.state_tree,
           conv_call.prev.state_root, conv_call.new.state_root)
    /\ conv_call.verdict = "true"
    /\ conv_call.ret.tag = "Ok"
    /\ ~conv_call.ret.val

\* C25: prepare_settlement(final_state) on a converter with a freshly
\* created tree, for a final state with state_root = [1; 32] as the test
\* builds it, returns Ok with a lock state whose lock_amount, pubkey_hash
\* and sequence are those of final_state, and leaves the state tree as it
\* was.
C25_SettlementPrepared ==
    (/\ conv_call.op = "prepare_settlement"
     /\ conv_call.pc = "done"
     /\ conv_call.pre = bsc_new
     /\ conv_call.new.state_root = OnesHash
     /\ conv_call.generated = "proof") =>
        /\ conv_call.ret.tag = "Ok"
        /\ conv_call.ret.val.lock_state.lock_amount = conv_call.new.current_balance
        /\ conv_call.ret.val.lock_state.pubkey_hash = conv_call.new.pubkey_hash
        /\ conv_call.ret.val.lock_state.sequence = conv_call.new.sequence
        /\ converter = conv_call.pre

\* C36: the state_root that a convert_lock_to_state call returns is the
\* root its own tree update produced, whatever other calls on the shared
\* state tree do meanwhile.
C36_OwnRoot ==
    \A c \in ConvTasks :
        (conv_tasks[c].pc = "done" /\ conv_tasks[c].ret.tag = "Ok") =>
            conv_tasks[c].ret.val.state_root = conv_tasks[c].own_root

---------------------------------------------------------------------------
(* Claims on the end of the verification loop *)

====
